---- MODULE Spec2Model ----
(***************************************************************************)
(* Verification model of rust-rp6lib (ATmega32 / Robby RP6).               *)
(*                                                                         *)
(* Spec      : the interrupt-safety layer.  One core executes a stack of   *)
(*             contexts: the entry routine at the bottom and the interrupt *)
(*             handlers that preempted it above.  Only the top context     *)
(*             runs.  Every context performs correctly nested critical     *)
(*             sections (CriticalSection::new / Drop, i.e. the body of     *)
(*             without_interrupts) and Mutex updates inside them, one      *)
(*             machine-visible step at a time.                             *)
(* SpecRes   : a handler with a declared static mut u8 resource that it  *)
(*             increments on every invocation.                             *)
(* SpecMacro : the build-time part, the #[entry] / #[interrupt] macros.    *)
(* SpecLink  : several #[interrupt] handlers exported into one program.    *)
(* SpecReg   : the Register operations on one memory cell of 8 or 16 bits. *)
(* SpecRmw   : read-modify-write of port B in the main flow and a handler. *)
(* SpecWait  : the busy-wait on a register the hardware changes; with weak  *)
(*             fairness of the polling loop it is SpecWaitFair.            *)
(* SpecPin   : one call of a Pin operation, of set_pins! or of set_leds on  *)
(*             sampled contents of the port registers.                     *)
(* SpecScenario : set_output, set_high, set_low, set_high on one pin, with *)
(*             is_high / is_low after each write.                          *)
(* SpecBuild : several function items with static mut at their top built   *)
(*             into one program.                                           *)
(* SpecDyn   : borrows of the RefCell of a DynamicMutex inside critical    *)
(*             sections.                                                   *)
(* SpecDisc  : a DynamicMutex shared by main and the handlers, every guard *)
(*             dropped inside the closure that took it.                    *)
(* SpecBits  : the Register operations on RegisterBits values.             *)
(* SpecSerial: the ring buffer of examples/02_serial_interface.rs.         *)
(* SpecNoCount : critical sections built without the nesting counter.      *)
(* SpecFmt   : the renderings of integers written to the serial line.      *)
(***************************************************************************)
EXTENDS Integers, Naturals, Sequences, FiniteSets, TLC

VARIABLES
    I,          \* SREG.I, the global interrupt enable flag
    counter,    \* CRITICAL_SECTION_COUNTER (Mutex<usize>)
    stack,      \* execution contexts, main at index 1, running one last
    shared,     \* a user Mutex<usize> shared by main and the handlers
    updates,    \* number of completed update() calls on shared
    RES,        \* the handler's lifted static mut COUNTER: u8
    calls,      \* number of invocations of the resource handler so far
    item,       \* the function item handed to a proc macro
    out,        \* what the proc macro returned for it
    prog,       \* the handlers registered in one program and its symbols
    mem,        \* the memory cell at the ADDRESS of the register under test
    arg,        \* the width of that register and the operands of the calls
    hist,       \* the calls made on that register, with what they returned
    wait,       \* the position of wait_until and the value it read last
    reg,        \* the registers DDRB, PORTB and PINB
    lost,       \* a write has overwritten a value stored after its own read
    dyn,        \* the RefCell of a DynamicMutex: borrow flag and value
    ser         \* the ring buffer of the serial example and its write pointer

vars == <<I, counter, stack, shared, updates, RES, calls, item, out,
          prog, mem, arg, hist, wait, reg, lost, dyn, ser>>

----------------------------------------------------------------------------
(* Bounds of the model *)

\* interrupt handlers that may be nested above main at the same time
MaxNest == 2
\* critical sections one context keeps open at the same time
MaxDepth == 2
\* update() calls on the shared Mutex
MaxUpdates == 2

\* usize on AVR is 16 bit wide
UsizeModulus == 65536
\* u8
U8Modulus == 256

Handlers == {"USART_RXC", "TIMER0_OVF"}

\* no handler registered yet
NoProgram ==
    [handlers |-> <<>>, symbols |-> {}, conflict |-> FALSE, last |-> "",
     items |-> <<>>, statics |-> {}, rejected |-> <<>>]

\* no call in progress
NoArg == [width |-> 8, mask |-> 0]

NoWait == [pc |-> "idle", read |-> 0, polls |-> 0]

RegisterNames ==
    {"DDRA", "PORTA", "PINA", "DDRB", "PORTB", "PINB",
     "DDRC", "PORTC", "PINC", "DDRD", "PORTD", "PIND"}

\* the I/O registers hold 0 after reset
ResetRegisters == [r \in RegisterNames |-> 0]

\* no read-modify-write has stored over a value it had not read
NoLost == [outside |-> FALSE, inside |-> FALSE]

\* a DynamicMutex::new(0): nothing borrowed, no panic, no call made
NoDyn ==
    [flag |-> 0, value |-> 0, panicked |-> FALSE, tried |-> "", guards |-> <<>>]

\* const USART_BUFFER_SIZE: usize = 32
USART_BUFFER_SIZE == 32

\* ' ' as u8, what USART_BUFFER is filled with
Blank == 32

\* Mutex::new([' ' as u8; USART_BUFFER_SIZE]), Mutex::new(0); no byte
\* received, no handler entered, nothing sent
NoSerial ==
    [buffer |-> [i \in 1..USART_BUFFER_SIZE |-> Blank], write_ptr |-> 0,
     received |-> 0, advanced |-> 0, stage |-> <<>>, dump |-> <<>>,
     seen |-> <<>>]

----------------------------------------------------------------------------
(* Critical sections: src/avr/interrupt/mod.rs *)

\* a counter update that leaves the counter as it was
NewUpdateNone(x) == x

\* the closure of the counter update in CriticalSection::new
NewUpdate(x) == (x + 1) % UsizeModulus

\* an exit that executes SEI whatever it read
DropEnablesAlways(x) == TRUE

\* an exit that executes SEI while any critical section was open
DropEnablesAny(x) == x >= 1

\* an exit that never executes SEI
DropEnablesNever(x) == FALSE

\* the condition under which Drop executes SEI
DropEnables(x) == x = 1

\* an exit that stores the counter as it read it
DropUpdateNone(x) == x

\* the value the closure of the counter update in Drop returns
DropUpdate(x) == (x - 1) % UsizeModulus

\* a pointer update that does not wrap
SharedUpdate_no_wrap(x) == x + 1

\* the closure of the update on the shared user Mutex, USART_WRITE_PTR:
\* |x| if x + 1 < USART_BUFFER_SIZE { x + 1 } else { 0 }
SharedUpdate(x) == IF x + 1 < USART_BUFFER_SIZE THEN x + 1 ELSE 0

Frame(c) == [ctx |-> c, pc |-> "run", depth |-> 0, x |-> 0,
             i0 |-> FALSE, sei |-> FALSE]

Top == stack[Len(stack)]

SetTop(f) == [stack EXCEPT ![Len(stack)] = f]

\* the state of the register layer and of the linked program
regUnchanged == UNCHANGED <<prog, mem, arg, dyn, ser, hist, wait, reg, lost>>

csUnchanged == UNCHANGED <<RES, calls, item, out>> /\ regUnchanged

\* an entry that leaves the I flag as it is
CS_new_no_cli ==
    /\ Top.pc = "run"
    /\ Top.depth < MaxDepth
    /\ stack' = SetTop([Top EXCEPT !.pc = "new_get",
                                   !.depth = @ + 1,
                                   !.i0 = IF Top.depth = 0 THEN I ELSE @])
    /\ UNCHANGED <<I, counter, shared, updates>>
    /\ csUnchanged

\* CriticalSection::new, lines 43-46: CLI, then the token exists
CS_new ==
    /\ Top.pc = "run"
    /\ Top.depth < MaxDepth
    /\ I' = FALSE
    /\ stack' = SetTop([Top EXCEPT !.pc = "new_get",
                                   !.depth = @ + 1,
                                   !.i0 = IF Top.depth = 0 THEN I ELSE @])
    /\ UNCHANGED <<counter, shared, updates>>
    /\ csUnchanged

\* CriticalSection::new, line 50: Cell::update reads the counter
CS_new_get ==
    /\ Top.pc = "new_get"
    /\ stack' = SetTop([Top EXCEPT !.pc = "new_set", !.x = counter])
    /\ UNCHANGED <<I, counter, shared, updates>>
    /\ csUnchanged

\* CriticalSection::new, line 50: Cell::update stores the closure's result
CS_new_set ==
    /\ Top.pc = "new_set"
    /\ counter' = NewUpdate(Top.x)
    /\ stack' = SetTop([Top EXCEPT !.pc = "run"])
    /\ UNCHANGED <<I, shared, updates>>
    /\ csUnchanged

\* Drop, line 61: the innermost token goes out of scope, update reads
CS_drop_get ==
    /\ Top.pc = "run"
    /\ Top.depth > 0
    /\ stack' = SetTop([Top EXCEPT !.pc = "drop_sei", !.x = counter,
                                   !.sei = FALSE])
    /\ UNCHANGED <<I, counter, shared, updates>>
    /\ csUnchanged

\* Drop, lines 62-64: the closure executes SEI when it was handed 1.  SEI takes
\* effect after the instruction that follows it; the subtraction and the two
\* byte stores of the 16 bit counter come after it, so a pending interrupt is
\* taken before the store of CS_drop_set is complete.
CS_drop_sei ==
    /\ Top.pc = "drop_sei"
    /\ I' = IF DropEnables(Top.x) THEN TRUE ELSE I
    /\ stack' = SetTop([Top EXCEPT !.pc = "drop_set",
                                   !.sei = DropEnables(Top.x)])
    /\ UNCHANGED <<counter, shared, updates>>
    /\ csUnchanged

\* Drop, lines 65-66: Cell::update stores the closure's result
CS_drop_set ==
    /\ Top.pc = "drop_set"
    /\ counter' = DropUpdate(Top.x)
    /\ stack' = SetTop([Top EXCEPT !.pc = "run", !.depth = @ - 1])
    /\ UNCHANGED <<I, shared, updates>>
    /\ csUnchanged

----------------------------------------------------------------------------
(* Mutex: src/avr/interrupt/mutex.rs *)

\* Mutex::lock needs a reference to a live CriticalSection
CanLock(f) == f.pc = "run" /\ f.depth > 0

\* Mutex::lock(cs).update(..): Cell::update reads the value
Mutex_get ==
    /\ CanLock(Top)
    /\ updates < MaxUpdates
    /\ stack' = SetTop([Top EXCEPT !.pc = "mtx_set", !.x = shared])
    /\ UNCHANGED <<I, counter, shared, updates>>
    /\ csUnchanged

\* Mutex::lock(cs).update(..): Cell::update stores the closure's result
Mutex_set ==
    /\ Top.pc = "mtx_set"
    /\ shared' = SharedUpdate(Top.x)
    /\ updates' = updates + 1
    /\ stack' = SetTop([Top EXCEPT !.pc = "run"])
    /\ UNCHANGED <<I, counter>>
    /\ csUnchanged

----------------------------------------------------------------------------
(* Interrupt dispatch: the trampoline the #[interrupt] macro generates *)

\* the hardware enters extern "avr-interrupt" fn __vector_N when the I flag
\* is set, and clears the flag
Dispatch(h) ==
    /\ I = TRUE
    /\ Len(stack) <= MaxNest
    /\ I' = FALSE
    /\ stack' = Append(stack, Frame(h))
    /\ UNCHANGED <<counter, shared, updates>>
    /\ csUnchanged

\* the trampoline returns with RETI, which sets the I flag
Reti ==
    /\ Len(stack) > 1
    /\ Top.pc = "run"
    /\ Top.depth = 0
    /\ I' = TRUE
    /\ stack' = SubSeq(stack, 1, Len(stack) - 1)
    /\ UNCHANGED <<counter, shared, updates>>
    /\ csUnchanged

----------------------------------------------------------------------------
(* Properties of the critical sections *)

RECURSIVE SumOver(_, _)
SumOver(F(_), n) == IF n = 0 THEN 0 ELSE F(stack[n]) + SumOver(F, n - 1)

\* critical sections of a context whose drop has not begun
OpenCS(f) == IF f.pc \in {"drop_sei", "drop_set"} THEN f.depth - 1 ELSE f.depth

\* critical sections of a context that were entered and not yet left
DepthOf(f) == f.depth

OpenTotal == SumOver(OpenCS, Len(stack))

DepthTotal == SumOver(DepthOf, Len(stack))

\* the running context takes a step of its own (it is neither preempted nor
\* returning)
OwnStep == Len(stack') = Len(stack)

\* between the CLI of its first entry and the SEI decision of its outermost exit
InCS(f) == f.depth >= 2 \/ (f.depth = 1 /\ f.pc # "drop_set")

\* C1: entering N nested critical sections and exiting all N leaves the
\* interrupt flag as it was before the first entry, whether it was set or clear
C1_RestoresPriorState ==
    [][(Top.pc = "drop_set" /\ Top.depth = 1 /\ OwnStep) => I' = Top.i0]_vars

\* C2: from the first entry to the exit of the outermost critical section the
\* interrupt flag is clear, so the exit of an inner critical section does not
\* set it and no context is preempted inside a critical section
C2_DisabledWhileOpen ==
    /\ InCS(Top) => ~I
    /\ \A k \in 1..(Len(stack) - 1) : ~InCS(stack[k])

C2_Witness ==
    /\ Top.pc = "drop_set"
    /\ Top.depth = 2
    /\ ~I

\* C3: an exit executes SEI exactly when the counter value it read is 1; an
\* exit that read k > 1 stores k - 1 and leaves the interrupt flag clear
C3_SeiIffOne ==
    [][/\ (Top.pc = "drop_sei" /\ OwnStep) =>
            /\ Top'.sei <=> Top.x = 1
            /\ Top.x = 1 => I'
            /\ Top.x # 1 => I' = I
       /\ (Top.pc = "drop_set" /\ OwnStep /\ Top.x > 1) =>
            /\ counter' = Top.x - 1
            /\ ~Top.sei
            /\ ~I /\ ~I']_vars

C3_Witness ==
    /\ Len(stack) = 2
    /\ stack[1].pc = "drop_set" /\ stack[1].x = 1 /\ stack[1].sei
    /\ Top.pc = "drop_set" /\ Top.x = 2 /\ ~Top.sei

\* C4: every exit reads a counter value of at least 1, and the counter never
\* exceeds the number of critical sections entered and not yet left, so it
\* never wraps below zero
C4_NoUnderflow ==
    /\ \A k \in 1..Len(stack) :
          stack[k].pc \in {"drop_sei", "drop_set"} => stack[k].x >= 1
    /\ counter <= DepthTotal

C4_Witness ==
    /\ Len(stack) = 2
    /\ stack[1].pc = "drop_set"
    /\ Top.pc = "drop_sei"
    /\ Top.x = 2

\* C5: wherever the interrupt flag is set, the counter equals the number of
\* open critical sections
C5_CounterMatchesOpen == I => counter = OpenTotal

\* a step that reads or writes the value wrapped by a Mutex
MutexAccess ==
    \/ counter' # counter
    \/ shared' # shared
    \/ /\ OwnStep
       /\ Top.pc \in {"new_get", "run"}
       /\ Top'.pc \in {"new_set", "drop_sei", "mtx_set"}

\* C6: every access to a value wrapped by a Mutex, the nesting counter
\* included, happens with the interrupt flag clear, and no update is lost
C6_MutexAccessDisabled ==
    /\ [](shared = updates)
    /\ [][MutexAccess => ~I]_vars

\* C7: no handler is invoked again while an earlier invocation of it, which
\* holds the exclusive references to its resources, has not returned
C7_ExclusiveResource ==
    \A h \in Handlers :
        Cardinality({k \in 1..Len(stack) : stack[k].ctx = h}) <= 1

\* the closure handed to without_interrupts is running in this context
InBody(f) == f.depth >= 1 /\ f.pc \in {"run", "mtx_set"}

C28_CounterBalanced ==
    /\ DepthTotal = 0 => counter = 0
    /\ \A k \in 1..Len(stack) :
          (/\ stack[k].pc = "drop_set"
           /\ \A j \in (k + 1)..Len(stack) : stack[j].depth = 0)
          => counter = stack[k].x

\* a handler that preempted main between the SEI and the counter store of
\* its exit is back from the critical sections of its own
C28_Witness ==
    /\ Len(stack) = 2
    /\ stack[1].pc = "drop_set" /\ stack[1].depth = 1
    /\ Top.ctx \in Handlers
    /\ Top.pc = "run" /\ Top.depth = 0
    /\ updates = MaxUpdates
    /\ counter = 1

----------------------------------------------------------------------------
(* Resources of a handler: macros/src/lib.rs, the part of the trampoline    *)
(* that hands the lifted statics to the renamed handler body                *)

\* invocations of the resource handler
MaxCalls == 258

\* the handler that declares static mut COUNTER: u8 = 0;
ResHandler == "TIMER1_OVF"

\* the declared initial expression of COUNTER
ResInit == 0

\* an argument that is initialised on every invocation, as a local would be
ResourceArgFresh(cell) == ResInit

\* { static mut COUNTER: u8 = 0; &mut COUNTER }: the argument is a reference
\* to the one static cell, which keeps the value it holds
ResourceArg(cell) == cell

\* the hardware enters the trampoline of ResHandler, which passes the resource
DispatchRes ==
    /\ I = TRUE
    /\ Len(stack) <= MaxNest
    /\ calls < MaxCalls
    /\ I' = FALSE
    /\ calls' = calls + 1
    /\ RES' = ResourceArg(RES)
    /\ stack' = Append(stack, [Frame(ResHandler) EXCEPT !.pc = "res_load"])
    /\ UNCHANGED <<counter, shared, updates, item, out>>
    /\ regUnchanged

\* handler body *COUNTER = COUNTER.wrapping_add(1): the load
Res_load ==
    /\ Top.pc = "res_load"
    /\ stack' = SetTop([Top EXCEPT !.pc = "res_store", !.x = RES])
    /\ UNCHANGED <<I, counter, shared, updates, RES, calls, item, out>>
    /\ regUnchanged

\* handler body *COUNTER = COUNTER.wrapping_add(1): the store
Res_store ==
    /\ Top.pc = "res_store"
    /\ RES' = (Top.x + 1) % U8Modulus
    /\ stack' = SetTop([Top EXCEPT !.pc = "run"])
    /\ UNCHANGED <<I, counter, shared, updates, calls, item, out>>
    /\ regUnchanged

\* the entry routine executes critical sections
MainCS ==
    /\ Top.ctx = "main"
    /\ \/ CS_new
       \/ CS_new_get
       \/ CS_new_set
       \/ CS_drop_get
       \/ CS_drop_sei
       \/ CS_drop_set

\* C8: the resource is one cell that starts with its declared initial value
\* and is never initialised again: the N-th invocation of the handler observes
\* (N - 1) mod 256, and between invocations the cell holds N mod 256
C8_ResourcePersists ==
    /\ \A k \in 1..Len(stack) :
          (stack[k].ctx = ResHandler /\ stack[k].pc = "res_store")
              => stack[k].x = (ResInit + calls - 1) % U8Modulus
    /\ Top.pc \notin {"res_load", "res_store"}
          => RES = (ResInit + calls) % U8Modulus

C8_Witness ==
    /\ calls = 258
    /\ Top.ctx = ResHandler
    /\ Top.pc = "res_store"
    /\ Top.x = 1


----------------------------------------------------------------------------
(* The proc macros: macros/src/lib.rs *)

\* no function item, no macro output
NoItem == [kind |-> "none"]

\* statements in the body of a function handed to a macro
MaxStmts == 3

\* Option<usize>
None == <<>>

Some(v) == <<v>>

\* the interrupts of the ATmega32 as the documentation of #[interrupt] lists
\* them, in the order of the vector table
AvailableInterrupts ==
    <<"RESET", "INT0", "INT1", "INT2", "TIMER2_COMP", "TIMER2_OVF",
      "TIMER1_CAPT", "TIMER1_COMPA", "TIMER1_COMPB", "TIMER1_OVF",
      "TIMER0_COMP", "TIMER0_OVF", "SPI_STC", "USART_RXC", "USART_UDRE",
      "USART_TXC", "ADC", "EE_RDY", "ANA_COMP", "TWI", "SPM_RDY">>

\* a lookup that numbers the vectors from 1, as the data sheet does
lookup_vector_from_one(interrupt) ==
    IF \E i \in 1..Len(AvailableInterrupts) : AvailableInterrupts[i] = interrupt
    THEN Some(CHOOSE i \in 1..Len(AvailableInterrupts) :
                  AvailableInterrupts[i] = interrupt)
    ELSE None

\* a lookup with a slot that two names share
lookup_vector_shared_slot(interrupt) ==
    IF interrupt = "TIMER0_OVF"
    THEN Some(10)
    ELSE IF \E i \in 1..Len(AvailableInterrupts) : AvailableInterrupts[i] = interrupt
    THEN Some((CHOOSE i \in 1..Len(AvailableInterrupts) :
                   AvailableInterrupts[i] = interrupt) - 1)
    ELSE None

\* vector::lookup_vector
lookup_vector(interrupt) ==
    CASE interrupt = "RESET" -> Some(0)
      [] interrupt = "INT0" -> Some(1)
      [] interrupt = "INT1" -> Some(2)
      [] interrupt = "INT2" -> Some(3)
      [] interrupt = "TIMER2_COMP" -> Some(4)
      [] interrupt = "TIMER2_OVF" -> Some(5)
      [] interrupt = "TIMER1_CAPT" -> Some(6)
      [] interrupt = "TIMER1_COMPA" -> Some(7)
      [] interrupt = "TIMER1_COMPB" -> Some(8)
      [] interrupt = "TIMER1_OVF" -> Some(9)
      [] interrupt = "TIMER0_COMP" -> Some(10)
      [] interrupt = "TIMER0_OVF" -> Some(11)
      [] interrupt = "SPI_STC" -> Some(12)
      [] interrupt = "USART_RXC" -> Some(13)
      [] interrupt = "USART_UDRE" -> Some(14)
      [] interrupt = "USART_TXC" -> Some(15)
      [] interrupt = "ADC" -> Some(16)
      [] interrupt = "EE_RDY" -> Some(17)
      [] interrupt = "ANA_COMP" -> Some(18)
      [] interrupt = "TWI" -> Some(19)
      [] interrupt = "SPM_RDY" -> Some(20)
      [] OTHER -> None

\* a statement of a function body: a static item or anything else
StaticMut(n) == [kind |-> "static", mut |-> TRUE, ident |-> n]

StaticConst(n) == [kind |-> "static", mut |-> FALSE, ident |-> n]

OtherStmt(n) == [kind |-> "other", mut |-> FALSE, ident |-> n]

\* Result<(Vec<ItemStatic>, Vec<Stmt>), Error>
ExtractOk(statics, stmts) == [ok |-> TRUE, statics |-> statics, stmts |-> stmts]

ExtractErr(ident) ==
    [ok |-> FALSE, err |-> <<"the name ", ident, " is defined multiple times">>]

\* the loop of extract_static_muts over the remaining statements, and the
\* stmts.extend(istmts) after it
RECURSIVE extract_loop(_, _, _, _)
extract_loop(istmts, seen, statics, stmts) ==
    IF istmts = <<>>
    THEN ExtractOk(statics, stmts)
    ELSE LET stmt == Head(istmts) IN
         IF stmt.kind = "static"
         THEN IF stmt.mut
              THEN IF stmt.ident \in seen
                   THEN ExtractErr(stmt.ident)
                   ELSE extract_loop(Tail(istmts), seen \cup {stmt.ident},
                                     Append(statics, stmt), stmts)
              ELSE extract_loop(Tail(istmts), seen, statics, Append(stmts, stmt))
         ELSE ExtractOk(statics, Append(stmts, stmt) \o Tail(istmts))

\* a loop that does not look for a name it has seen
RECURSIVE extract_loop_unchecked(_, _, _)
extract_loop_unchecked(istmts, statics, stmts) ==
    IF istmts = <<>>
    THEN ExtractOk(statics, stmts)
    ELSE LET stmt == Head(istmts) IN
         IF stmt.kind = "static"
         THEN IF stmt.mut
              THEN extract_loop_unchecked(Tail(istmts), Append(statics, stmt), stmts)
              ELSE extract_loop_unchecked(Tail(istmts), statics, Append(stmts, stmt))
         ELSE ExtractOk(statics, Append(stmts, stmt) \o Tail(istmts))

extract_static_muts_unchecked(stmts) == extract_loop_unchecked(stmts, <<>>, <<>>)

\* a loop that goes on after the first statement that is no static item
RECURSIVE extract_loop_all(_, _, _)
extract_loop_all(istmts, statics, stmts) ==
    IF istmts = <<>>
    THEN ExtractOk(statics, stmts)
    ELSE LET stmt == Head(istmts) IN
         IF stmt.kind = "static" /\ stmt.mut
         THEN extract_loop_all(Tail(istmts), Append(statics, stmt), stmts)
         ELSE extract_loop_all(Tail(istmts), statics, Append(stmts, stmt))

extract_static_muts_all(stmts) == extract_loop_all(stmts, <<>>, <<>>)

\* extract_static_muts
extract_static_muts(stmts) == extract_loop(stmts, {}, <<>>, <<>>)

\* the signature of the function item, as far as the macros inspect it
SigPlain ==
    [constness |-> FALSE, vis |-> "inherited", abi |-> FALSE, inputs |-> 0,
     generics |-> FALSE, where_clause |-> FALSE, variadic |-> FALSE,
     unsafety |-> FALSE, output |-> "default"]

\* a check that lets parameters pass
signature_base_any_inputs(sig) ==
    /\ ~sig.constness
    /\ sig.vis = "inherited"
    /\ ~sig.abi
    /\ ~sig.generics
    /\ ~sig.where_clause
    /\ ~sig.variadic

\* the part of valid_signature both macros share
signature_base(sig) ==
    /\ ~sig.constness
    /\ sig.vis = "inherited"
    /\ ~sig.abi
    /\ sig.inputs = 0
    /\ ~sig.generics
    /\ ~sig.where_clause
    /\ ~sig.variadic

\* valid_signature of #[entry]
entry_valid_signature(sig) ==
    /\ signature_base(sig)
    /\ sig.output = "never"

\* valid_signature of #[interrupt]
interrupt_valid_signature(sig) ==
    /\ signature_base(sig)
    /\ sig.output \in {"default", "unit", "never"}

CompileError(msg) == [kind |-> "compile_error", msg |-> msg]

\* the token stream both macros emit: the exported trampoline, which calls
\* the renamed function with one argument per lifted static, and the function
Tokens(export_name, ident, statics, stmts) ==
    [kind |-> "tokens",
     export_name |-> export_name,
     trampoline |-> <<"__rp6_", ident, "_trampoline">>,
     calls |-> <<"__rp6_", ident>>,
     resource_args |-> statics,
     fn |-> [ident |-> <<"__rp6_", ident>>, inputs |-> statics, stmts |-> stmts]]

\* #[entry]
entry(f) ==
    IF ~entry_valid_signature(f.sig)
    THEN CompileError(<<"#[entry] function must have signature [unsafe] fn() -> !">>)
    ELSE IF ~f.args_empty
    THEN CompileError(<<"This attribute accepts no arguments">>)
    ELSE LET x == extract_static_muts(f.stmts) IN
         IF ~x.ok
         THEN CompileError(x.err)
         ELSE Tokens(<<"main">>, f.ident, x.statics, x.stmts)

\* #[interrupt]
interrupt(f) ==
    IF ~interrupt_valid_signature(f.sig)
    THEN CompileError(<<"#[interrupt] handlers must have signature [unsafe] fn() [-> !]">>)
    ELSE LET x == extract_static_muts(f.stmts) IN
         IF ~x.ok
         THEN CompileError(x.err)
         ELSE LET vect == lookup_vector(f.ident) IN
              IF vect = None
              THEN CompileError(<<"Interrupt ", f.ident, " unknown">>)
              ELSE Tokens(<<"__vector_", vect[1]>>, f.ident, x.statics, x.stmts)

\* the compiler expands the attribute on a function item
ExpandEntry ==
    /\ out = NoItem
    /\ item.macro = "entry"
    /\ out' = entry(item)
    /\ UNCHANGED <<I, counter, stack, shared, updates, RES, calls, item>>
    /\ regUnchanged

ExpandInterrupt ==
    /\ out = NoItem
    /\ item.macro = "interrupt"
    /\ out' = interrupt(item)
    /\ UNCHANGED <<I, counter, stack, shared, updates, RES, calls, item>>
    /\ regUnchanged

(* the function items the macros are applied to *)

RECURSIVE SeqsUpTo(_, _)
SeqsUpTo(S, n) ==
    IF n = 0 THEN {<<>>}
    ELSE LET shorter == SeqsUpTo(S, n - 1) IN
         shorter \cup {Append(q, e) : q \in shorter, e \in S}

StmtValues ==
    {StaticMut("A"), StaticMut("B"), StaticConst("A"), OtherStmt("e1"),
     OtherStmt("e2")}

Bodies == SeqsUpTo(StmtValues, MaxStmts)

Signatures ==
    {SigPlain,
     [SigPlain EXCEPT !.output = "unit"],
     [SigPlain EXCEPT !.output = "never"],
     [SigPlain EXCEPT !.output = "other"],
     [SigPlain EXCEPT !.output = "never", !.unsafety = TRUE],
     [SigPlain EXCEPT !.constness = TRUE],
     [SigPlain EXCEPT !.vis = "pub"],
     [SigPlain EXCEPT !.abi = TRUE],
     [SigPlain EXCEPT !.inputs = 1],
     [SigPlain EXCEPT !.generics = TRUE],
     [SigPlain EXCEPT !.where_clause = TRUE],
     [SigPlain EXCEPT !.variadic = TRUE]}

Range(q) == {q[i] : i \in 1..Len(q)}

UnknownNames == {"FOO", "main", "int0", "TIMER3_OVF"}

HandlerNames == Range(AvailableInterrupts) \cup UnknownNames

Items ==
    [macro : {"interrupt"}, ident : HandlerNames, sig : Signatures,
     args_empty : {TRUE}, stmts : Bodies]
    \cup
    [macro : {"entry"}, ident : {"main"}, sig : Signatures,
     args_empty : BOOLEAN, stmts : Bodies]

(* a program with several handlers *)

\* handlers registered in one program
MaxHandlers == 2

\* fn NAME() {} with nothing for the macro to object to but the name
PlainHandler(name) ==
    [macro |-> "interrupt", ident |-> name, sig |-> SigPlain,
     args_empty |-> TRUE, stmts |-> <<>>]

\* #[interrupt] is applied to one more handler of the program; its trampoline
\* is exported under #[export_name = "__vector_N"], and a symbol that is
\* exported twice is a conflict
RegisterHandler(name) ==
    /\ ~prog.conflict
    /\ LET t == interrupt(PlainHandler(name)) IN
         /\ t.kind = "tokens"
         /\ t.export_name \in prog.symbols \/ Len(prog.handlers) < MaxHandlers
         /\ prog' = IF t.export_name \in prog.symbols
                    THEN [prog EXCEPT !.conflict = TRUE, !.last = name]
                    ELSE [prog EXCEPT !.handlers = Append(prog.handlers, name),
                                      !.symbols = prog.symbols \cup {t.export_name},
                                      !.last = name]
    /\ UNCHANGED <<I, counter, stack, shared, updates, RES, calls, item, out>>
    /\ UNCHANGED <<mem, arg, dyn, ser, hist, wait, reg, lost>>

----------------------------------------------------------------------------
(* Properties of the macros *)

\* the number of static items the body begins with
LeadingStatics(stmts) ==
    CHOOSE n \in 0..Len(stmts) :
        /\ \A i \in 1..n : stmts[i].kind = "static"
        /\ n = Len(stmts) \/ stmts[n + 1].kind # "static"

\* the j-th statement is a static mut of the leading run that repeats the name
\* of an earlier one
RepeatsName(stmts, j) ==
    /\ j <= LeadingStatics(stmts)
    /\ stmts[j].mut
    /\ \E i \in 1..(j - 1) : stmts[i].mut /\ stmts[i].ident = stmts[j].ident

HasDuplicate(stmts) == \E j \in 1..Len(stmts) : RepeatsName(stmts, j)

FirstDuplicate(stmts) ==
    CHOOSE j \in 1..Len(stmts) :
        /\ RepeatsName(stmts, j)
        /\ \A i \in 1..(j - 1) : ~RepeatsName(stmts, i)

\* C9: a body that declares two static mut of the same name at its top is
\* rejected: extract_static_muts returns the error that names the duplicate,
\* and the macro returns a compile error and no trampoline or function
C9_DuplicateRejected ==
    (out # NoItem /\ HasDuplicate(item.stmts)) =>
        LET x == extract_static_muts(item.stmts)
            name == item.stmts[FirstDuplicate(item.stmts)].ident
        IN  /\ ~x.ok
            /\ x.err = <<"the name ", name, " is defined multiple times">>
            /\ out.kind = "compile_error"
            /\ out.kind # "tokens"

C9_Witness ==
    /\ item.macro = "interrupt"
    /\ item.stmts = <<StaticMut("A"), StaticConst("A"), StaticMut("A")>>
    /\ out = CompileError(<<"the name ", "A", " is defined multiple times">>)

IsStaticMut(stmt) == stmt.kind = "static" /\ stmt.mut

IsNoStaticMut(stmt) == ~IsStaticMut(stmt)

\* C31: extract_static_muts lifts exactly the static mut items of the leading
\* run of static items: a static mut after the first statement that is no
\* static item stays in the body, a static that is not mut stays in the body,
\* and the lifted items and the remaining statements keep their order and
\* are together the statements of the input
C31_LeadingStaticMuts ==
    (out # NoItem /\ out.kind = "tokens") =>
        LET n == LeadingStatics(item.stmts)
            lead == SubSeq(item.stmts, 1, n)
            rest == SubSeq(item.stmts, n + 1, Len(item.stmts))
        IN  /\ out.resource_args = SelectSeq(lead, IsStaticMut)
            /\ out.fn.inputs = out.resource_args
            /\ out.fn.stmts = SelectSeq(lead, IsNoStaticMut) \o rest
            /\ Len(out.resource_args) + Len(out.fn.stmts) = Len(item.stmts)

\* a static mut after an expression stays in the body
C31_Witness ==
    /\ item.macro = "interrupt"
    /\ item.stmts = <<StaticMut("A"), OtherStmt("e1"), StaticMut("B")>>
    /\ out.kind = "tokens"
    /\ out.resource_args = <<StaticMut("A")>>
    /\ out.fn.stmts = <<OtherStmt("e1"), StaticMut("B")>>

InTable(name) ==
    \E i \in 1..Len(AvailableInterrupts) : AvailableInterrupts[i] = name

SlotOf(name) ==
    (CHOOSE i \in 1..Len(AvailableInterrupts) : AvailableInterrupts[i] = name) - 1

UnknownInterrupt(name) == CompileError(<<"Interrupt ", name, " unknown">>)

\* what C10 says of the table: the documented slot for each of the 21 names,
\* no slot for any other name
TableAsDocumented(name) ==
    /\ Len(AvailableInterrupts) = 21
    /\ lookup_vector("RESET") = Some(0)
    /\ lookup_vector("INT0") = Some(1)
    /\ lookup_vector("TIMER0_OVF") = Some(11)
    /\ lookup_vector("SPM_RDY") = Some(20)
    /\ InTable(name) => lookup_vector(name) = Some(SlotOf(name))
    /\ ~InTable(name) => lookup_vector(name) = None

\* C10 as claimed: lookup_vector returns the documented slot for the 21 names
\* and none for any other, and a handler with a name outside the table gets
\* the error that the interrupt is unknown and no dispatch stub
C10_UnknownNameError ==
    (out # NoItem /\ item.macro = "interrupt") =>
        /\ TableAsDocumented(item.ident)
        /\ ~InTable(item.ident) => out = UnknownInterrupt(item.ident)

\* C10 amended: the table as claimed; a handler with a name outside the table
\* gets a compile error and no dispatch stub, and the error is the one that
\* the interrupt is unknown when the signature is valid and no static mut name
\* is declared twice, as the signature and the statics are checked first
C10_UnknownNameRejected ==
    (out # NoItem /\ item.macro = "interrupt") =>
        /\ TableAsDocumented(item.ident)
        /\ ~InTable(item.ident) =>
              /\ out.kind = "compile_error"
              /\ (interrupt_valid_signature(item.sig)
                    /\ extract_static_muts(item.stmts).ok)
                 => out = UnknownInterrupt(item.ident)
        /\ out.kind = "tokens" =>
              out.export_name = <<"__vector_", SlotOf(item.ident)>>

C10_Witness ==
    /\ item.macro = "interrupt"
    /\ item.ident = "FOO"
    /\ item.stmts = <<StaticMut("A"), OtherStmt("e1")>>
    /\ out = UnknownInterrupt("FOO")

\* the names of the table
TableNames == Range(AvailableInterrupts)

\* C11: lookup_vector maps distinct names to distinct slots and the slots are
\* exactly 0..20; a handler is exported as __vector_<slot>, so a program that
\* is accepted has at most one handler per slot, and a registration for a slot
\* that has a handler is a conflict
C11_OneHandlerPerSlot ==
    /\ \A a \in HandlerNames, b \in HandlerNames :
          (lookup_vector(a) # None /\ lookup_vector(a) = lookup_vector(b)) => a = b
    /\ {lookup_vector(n)[1] : n \in TableNames} = 0..20
    /\ \A i \in 1..Len(prog.handlers), j \in 1..Len(prog.handlers) :
          i # j => lookup_vector(prog.handlers[i]) # lookup_vector(prog.handlers[j])
    /\ prog.symbols =
          {<<"__vector_", lookup_vector(prog.handlers[i])[1]>> :
              i \in 1..Len(prog.handlers)}
    /\ prog.conflict =>
          \E i \in 1..Len(prog.handlers) :
              lookup_vector(prog.handlers[i]) = lookup_vector(prog.last)

C11_Witness ==
    /\ prog.conflict
    /\ prog.handlers = <<"TIMER0_OVF", "INT0">>
    /\ prog.last = "INT0"

\* what C12 lists as malformed for #[interrupt]
MalformedInterrupt(sig) ==
    \/ sig.inputs > 0
    \/ sig.generics
    \/ sig.where_clause
    \/ sig.vis # "inherited"
    \/ sig.constness
    \/ sig.abi
    \/ sig.output \notin {"default", "unit", "never"}

\* what C12 lists as malformed for #[entry]
MalformedEntry(sig) ==
    \/ sig.inputs > 0
    \/ sig.generics
    \/ sig.where_clause
    \/ sig.vis # "inherited"
    \/ sig.constness
    \/ sig.abi
    \/ sig.output # "never"

\* C12: a handler with parameters, generics, a where clause, a visibility
\* qualifier, const, an ABI or a return type other than none, () and ! gets
\* the signature error of #[interrupt] and nothing else; #[entry] rejects the
\* same and every return type but !, and it rejects macro arguments
C12_MalformedRejected ==
    out # NoItem =>
        /\ (item.macro = "interrupt" /\ MalformedInterrupt(item.sig)) =>
              out = CompileError(
                  <<"#[interrupt] handlers must have signature [unsafe] fn() [-> !]">>)
        /\ (item.macro = "entry" /\ MalformedEntry(item.sig)) =>
              out = CompileError(
                  <<"#[entry] function must have signature [unsafe] fn() -> !">>)
        /\ (item.macro = "entry" /\ ~item.args_empty) =>
              out.kind = "compile_error"
        /\ (item.macro = "entry" /\ ~MalformedEntry(item.sig) /\ ~item.args_empty) =>
              out = CompileError(<<"This attribute accepts no arguments">>)

C12_Witness ==
    /\ item.macro = "interrupt"
    /\ item.ident = "INT0"
    /\ item.sig = [SigPlain EXCEPT !.inputs = 1]
    /\ item.stmts = <<StaticMut("A")>>
    /\ out.kind = "compile_error"

----------------------------------------------------------------------------
(* Registers: src/avr/device/register.rs *)

\* operations applied to the register in one run
MaxOps == 2

RECURSIVE Pow2(_)
Pow2(n) == IF n = 0 THEN 1 ELSE 2 * Pow2(n - 1)

\* & on an unsigned integer
RECURSIVE BitAnd(_, _)
BitAnd(a, b) ==
    IF a = 0 \/ b = 0
    THEN 0
    ELSE (a % 2) * (b % 2) + 2 * BitAnd(a \div 2, b \div 2)

\* | on an unsigned integer
RECURSIVE BitOr(_, _)
BitOr(a, b) ==
    IF a = 0 THEN b
    ELSE IF b = 0 THEN a
    ELSE (IF a % 2 = 1 \/ b % 2 = 1 THEN 1 ELSE 0) + 2 * BitOr(a \div 2, b \div 2)

\* ^ on an unsigned integer
RECURSIVE BitXor(_, _)
BitXor(a, b) ==
    IF a = 0 THEN b
    ELSE IF b = 0 THEN a
    ELSE (((a % 2) + (b % 2)) % 2) + 2 * BitXor(a \div 2, b \div 2)

\* ! on an unsigned integer of the register's width
BitNot(a, width) == Pow2(width) - 1 - a

\* the widths RegisterValue is implemented for: u8 and u16
Widths == {8, 16}

\* the register values and the masks the operations are applied to
Values(width) ==
    IF width = 8
    THEN {0, 1, 15, 85, 128, 165, 240, 255}
    ELSE {0, 1, 255, 256, 21930, 32768, 42480, 65535}

Masks(width) ==
    IF width = 8
    THEN {0, 1, 3, 4, 15, 128, 129, 255}
    ELSE {0, 1, 3, 256, 4080, 32768, 32769, 65535}

\* a store that keeps the low byte only
write_volatile_low_byte(value, width) ==
    IF width = 8 THEN <<value % 256>> ELSE <<value % 256, 0>>

\* core::ptr::write_volatile(Self::ADDRESS, value): the bytes of the value
\* at the register's address, low byte first
write_volatile(value, width) ==
    IF width = 8
    THEN <<value % 256>>
    ELSE <<value % 256, (value \div 256) % 256>>

\* core::ptr::read_volatile(Self::ADDRESS)
read_volatile(bytes) ==
    IF Len(bytes) = 1 THEN bytes[1] ELSE bytes[1] + 256 * bytes[2]

\* Register::write
write(value, width) == write_volatile(value, width)

\* Register::read
read(bytes) == read_volatile(bytes)

\* Register::set_mask_raw
set_mask_raw(bytes, mask, width) ==
    write_volatile(BitOr(read_volatile(bytes), mask), width)

\* an unset that keeps the masked bits and drops the others
unset_mask_raw_keep(bytes, mask, width) ==
    write_volatile(BitAnd(read_volatile(bytes), mask), width)

\* Register::unset_mask_raw
unset_mask_raw(bytes, mask, width) ==
    write_volatile(BitAnd(read_volatile(bytes), BitNot(mask, width)), width)

\* a toggle that sets
toggle_raw_or(bytes, mask, width) ==
    write_volatile(BitOr(read_volatile(bytes), mask), width)

\* Register::toggle_raw
toggle_raw(bytes, mask, width) ==
    write_volatile(BitXor(read_volatile(bytes), mask), width)

\* a test for some masked bit
is_mask_set_raw_any(bytes, mask) == BitAnd(read_volatile(bytes), mask) # 0

\* Register::is_mask_set_raw
is_mask_set_raw(bytes, mask) == BitAnd(read_volatile(bytes), mask) = mask

\* a test for not all masked bits set
is_clear_raw_not_all(bytes, mask) == BitAnd(read_volatile(bytes), mask) # mask

\* Register::is_clear_raw
is_clear_raw(bytes, mask) == BitAnd(read_volatile(bytes), mask) = 0

\* one call on the register: the cell after it and what the call got and gave
Call(op, val, ret, after) ==
    /\ Len(hist) < MaxOps
    /\ mem' = after
    /\ hist' = Append(hist, [op |-> op, val |-> val, ret |-> ret,
                             before |-> mem, after |-> after])
    /\ UNCHANGED <<I, counter, stack, shared, updates, RES, calls, item, out>>
    /\ UNCHANGED <<prog, arg, dyn, ser, wait, reg, lost>>

Reg_write(value) == Call("write", value, FALSE, write(value, arg.width))

Reg_read == Call("read", read(mem), FALSE, mem)

Reg_set_mask_raw ==
    Call("set_mask_raw", arg.mask, FALSE, set_mask_raw(mem, arg.mask, arg.width))

Reg_unset_mask_raw ==
    Call("unset_mask_raw", arg.mask, FALSE, unset_mask_raw(mem, arg.mask, arg.width))

Reg_toggle_raw ==
    Call("toggle_raw", arg.mask, FALSE, toggle_raw(mem, arg.mask, arg.width))

Reg_is_mask_set_raw ==
    Call("is_mask_set_raw", arg.mask, is_mask_set_raw(mem, arg.mask), mem)

Reg_is_clear_raw ==
    Call("is_clear_raw", arg.mask, is_clear_raw(mem, arg.mask), mem)

\* a register of either width with some content, and the mask of the run
InitRegister ==
    /\ I = FALSE
    /\ counter = 0
    /\ stack = <<Frame("main")>>
    /\ shared = 0
    /\ updates = 0
    /\ RES = ResInit
    /\ calls = 0
    /\ item = NoItem
    /\ out = NoItem
    /\ prog = NoProgram
    /\ arg \in {[width |-> w, mask |-> m] : w \in Widths, m \in Masks(8) \cup Masks(16)}
    /\ arg.mask \in Masks(arg.width)
    /\ mem \in {write_volatile(r, arg.width) : r \in Values(arg.width)}
    /\ hist = <<>>
    /\ wait = NoWait
    /\ reg = ResetRegisters
    /\ lost = NoLost
    /\ dyn = NoDyn
    /\ ser = NoSerial

NextRegister ==
    \/ \E value \in Values(arg.width) : Reg_write(value)
    \/ Reg_read
    \/ Reg_set_mask_raw
    \/ Reg_unset_mask_raw
    \/ Reg_toggle_raw
    \/ Reg_is_mask_set_raw
    \/ Reg_is_clear_raw

SpecReg == InitRegister /\ [][NextRegister]_vars

----------------------------------------------------------------------------
(* Properties of the registers *)

\* bit i of n
Bit(n, i) == (n \div Pow2(i)) % 2

\* the positions of the bits of the register
Bits == 0..(arg.width - 1)

\* calls k and k+1 of the run are op1 and op2
Pair(k, op1, op2) ==
    /\ k + 1 <= Len(hist)
    /\ hist[k].op = op1
    /\ hist[k + 1].op = op2

\* C13: a read that follows a write(v) returns v modulo 2^width
C13_WriteThenRead ==
    \A k \in 1..Len(hist) :
        Pair(k, "write", "read") => hist[k + 1].val = hist[k].val % Pow2(arg.width)

C13_Witness ==
    /\ arg.width = 16
    /\ Pair(1, "write", "read")
    /\ hist[1].val = 42480
    /\ read(hist[1].before) = 21930

\* C14: after set_mask_raw(m) and then unset_mask_raw(m) every bit outside m
\* is as it was before the two calls and every bit inside m is 0
C14_SetThenUnset ==
    \A k \in 1..Len(hist) :
        Pair(k, "set_mask_raw", "unset_mask_raw") =>
            /\ read(hist[k + 1].after) < Pow2(arg.width)
            /\ \A i \in Bits :
                  Bit(read(hist[k + 1].after), i) =
                      IF Bit(arg.mask, i) = 1 THEN 0 ELSE Bit(read(hist[k].before), i)

C14_Witness ==
    /\ arg = [width |-> 16, mask |-> 4080]
    /\ Pair(1, "set_mask_raw", "unset_mask_raw")
    /\ read(hist[1].before) = 21930
    /\ read(mem) = 20490

\* C15: two toggle_raw(m) in a row leave the register as it was
C15_ToggleTwice ==
    \A k \in 1..Len(hist) :
        Pair(k, "toggle_raw", "toggle_raw") => hist[k + 1].after = hist[k].before

C15_Witness ==
    /\ arg = [width |-> 8, mask |-> 129]
    /\ Pair(1, "toggle_raw", "toggle_raw")
    /\ read(hist[1].before) = 165
    /\ read(hist[1].after) = 36
    /\ read(mem) = 165

\* all masked bits of n are b
MaskedBitsAre(n, b) == \A i \in Bits : Bit(arg.mask, i) = 1 => Bit(n, i) = b

\* the mask has exactly one bit
SingleBit == \E i \in Bits : arg.mask = Pow2(i)

\* C16: is_mask_set_raw(m) is true iff all bits of m are 1 in the register,
\* is_clear_raw(m) is true iff all of them are 0, neither writes; asked of the
\* same register value, exactly one is true for a single-bit mask and both are
\* true for the empty mask
C16_MaskTests ==
    /\ \A k \in 1..Len(hist) :
          /\ hist[k].op = "is_mask_set_raw" =>
                /\ hist[k].ret = (BitAnd(read(hist[k].before), arg.mask) = arg.mask)
                /\ hist[k].ret = MaskedBitsAre(read(hist[k].before), 1)
                /\ hist[k].after = hist[k].before
          /\ hist[k].op = "is_clear_raw" =>
                /\ hist[k].ret = (BitAnd(read(hist[k].before), arg.mask) = 0)
                /\ hist[k].ret = MaskedBitsAre(read(hist[k].before), 0)
                /\ hist[k].after = hist[k].before
    /\ \A k \in 1..Len(hist) :
          Pair(k, "is_mask_set_raw", "is_clear_raw") =>
              /\ SingleBit => hist[k].ret # hist[k + 1].ret
              /\ arg.mask = 0 => hist[k].ret /\ hist[k + 1].ret

\* a multi-bit mask of which the register has some bits set and some clear
C16_Witness ==
    /\ arg = [width |-> 8, mask |-> 129]
    /\ Pair(1, "is_mask_set_raw", "is_clear_raw")
    /\ read(mem) = 128
    /\ ~hist[1].ret
    /\ ~hist[2].ret

----------------------------------------------------------------------------
(* Read-modify-write of a register in the main flow and in handlers:        *)
(* src/avr/device/register.rs, src/avr/device/pin.rs                        *)

\* the bit offsets of the pins of port B each context works on, as listed
PinsOf(ctx) == IF ctx = "main" THEN <<1, 0>> ELSE <<2>>

\* the handler that works on port B
RmwHandlers == {"TIMER0_OVF"}

RECURSIVE PinMask(_)
\* $base_pin::MASK $(| $pin::MASK)*
PinMask(pins) ==
    IF pins = <<>> THEN 0 ELSE BitOr(Pow2(Head(pins)), PinMask(Tail(pins)))

\* the mask a context passes to the operations
MaskOf(ctx) == PinMask(PinsOf(ctx))

RECURSIVE Reverse(_)
\* set_pins!(@reverse_for_output_mask ...)
Reverse(pins) ==
    IF pins = <<>> THEN <<>> ELSE Append(Reverse(Tail(pins)), Head(pins))

RECURSIVE output_mask(_, _)
\* set_pins!(@output_mask ...): the lowest bit of the value at the offset of
\* the first pin of the reversed list, the rest of the value for the rest
output_mask(pins_rev, value) ==
    IF pins_rev = <<>>
    THEN 0
    ELSE BitOr((value % 2) * Pow2(Head(pins_rev)),
               output_mask(Tail(pins_rev), value \div 2))

\* the three read-modify-write operations of Register
RmwOps == {"set_mask_raw", "unset_mask_raw", "toggle_raw"}

\* what the operation stores, given what it read
Apply(op, r, mask) ==
    CASE op = "set_mask_raw" -> read(set_mask_raw(write(r, 8), mask, 8))
      [] op = "unset_mask_raw" -> read(unset_mask_raw(write(r, 8), mask, 8))
      [] op = "toggle_raw" -> read(toggle_raw(write(r, 8), mask, 8))

\* a store computed from the register as it is at the store
RmwOperandCurrent(f, current) == current

\* the value the store of a read-modify-write is computed from: the one its
\* read_volatile returned
RmwOperand(f, current) == f.x

\* whether the store goes over a value the operation has not read
Loses(f, r) ==
    [outside |-> lost.outside \/ (f.depth = 0 /\ reg[r] # f.x),
     inside |-> lost.inside \/ (f.depth > 0 /\ reg[r] # f.x)]

rmwUnchanged ==
    /\ UNCHANGED <<I, counter, shared, updates, RES, calls, item, out>>
    /\ UNCHANGED <<prog, mem, arg, dyn, ser, hist, wait>>

\* read_volatile(Self::ADDRESS) of set_mask_raw, unset_mask_raw, toggle_raw
\* on PORTB
Rmw_read(op) ==
    /\ Top.pc = "run"
    /\ stack' = SetTop([Top EXCEPT !.pc = op, !.x = reg["PORTB"]])
    /\ UNCHANGED <<reg, lost>>
    /\ rmwUnchanged

\* write_volatile(Self::ADDRESS, ...) of the same call
Rmw_write ==
    /\ Top.pc \in RmwOps
    /\ reg' = [reg EXCEPT !["PORTB"] =
                  Apply(Top.pc, RmwOperand(Top, reg["PORTB"]), MaskOf(Top.ctx))]
    /\ lost' = Loses(Top, "PORTB")
    /\ stack' = SetTop([Top EXCEPT !.pc = "run", !.x = 0])
    /\ rmwUnchanged

\* set_pins!: DDR::set_mask_raw(pin_mask), its read
Pins_ddr_read ==
    /\ Top.pc = "run"
    /\ Len(PinsOf(Top.ctx)) > 1
    /\ stack' = SetTop([Top EXCEPT !.pc = "pins_ddr", !.x = reg["DDRB"]])
    /\ UNCHANGED <<reg, lost>>
    /\ rmwUnchanged

\* set_pins!: DDR::set_mask_raw(pin_mask), its write
Pins_ddr_write ==
    /\ Top.pc = "pins_ddr"
    /\ reg' = [reg EXCEPT !["DDRB"] =
                  Apply("set_mask_raw", RmwOperand(Top, reg["DDRB"]), MaskOf(Top.ctx))]
    /\ lost' = Loses(Top, "DDRB")
    /\ stack' = SetTop([Top EXCEPT !.pc = "pins_port"])
    /\ rmwUnchanged

\* set_pins!: PORT::read()
Pins_port_read ==
    /\ Top.pc = "pins_port"
    /\ stack' = SetTop([Top EXCEPT !.pc = "pins_write", !.x = reg["PORTB"]])
    /\ UNCHANGED <<reg, lost>>
    /\ rmwUnchanged

\* set_pins!: PORT::write((PORT::read() & !pin_mask) | output mask)
Pins_port_write(value) ==
    /\ Top.pc = "pins_write"
    /\ reg' = [reg EXCEPT !["PORTB"] =
                  BitOr(BitAnd(RmwOperand(Top, reg["PORTB"]),
                               BitNot(MaskOf(Top.ctx), 8)),
                        output_mask(Reverse(PinsOf(Top.ctx)), value))]
    /\ lost' = Loses(Top, "PORTB")
    /\ stack' = SetTop([Top EXCEPT !.pc = "run", !.x = 0])
    /\ rmwUnchanged

\* the values set_pins! is handed for two pins
PinValues == 0..3

\* handlers on the stack while the operations run
MaxPreempt == 1

\* critical sections a context nests around the operations
MaxRmwDepth == 1

\* without_interrupts around the operations
Rmw_cs_new ==
    /\ Top.depth < MaxRmwDepth
    /\ CS_new

\* a handler preempts the operations
Rmw_dispatch(h) ==
    /\ Len(stack) <= MaxPreempt
    /\ Dispatch(h)

NextRmw ==
    \/ Rmw_cs_new
    \/ CS_new_get
    \/ CS_new_set
    \/ CS_drop_get
    \/ CS_drop_sei
    \/ CS_drop_set
    \/ \E h \in RmwHandlers : Rmw_dispatch(h)
    \/ Reti
    \/ \E op \in RmwOps : Rmw_read(op)
    \/ Rmw_write
    \/ Pins_ddr_read
    \/ Pins_ddr_write
    \/ Pins_port_read
    \/ \E value \in PinValues : Pins_port_write(value)

----------------------------------------------------------------------------
(* Properties of the read-modify-write operations *)

\* the pcs between the read and the write of an operation, and its register
RmwPending == RmwOps \cup {"pins_ddr", "pins_write"}

TargetOf(pc) == IF pc = "pins_ddr" THEN "DDRB" ELSE "PORTB"

\* the running context stores the result of a read-modify-write
RmwStores ==
    /\ Top.pc \in RmwPending
    /\ reg' # reg \/ lost' # lost \/ stack' # stack
    /\ Len(stack') = Len(stack)
    /\ stack'[Len(stack)].pc # Top.pc

\* C17: the write of set_mask_raw, unset_mask_raw and toggle_raw stores the
\* operation applied to what its own earlier read returned, whatever the
\* register holds at the write, so that a handler's change of the register
\* between the two is overwritten when the operation runs outside a critical
\* section
C17_StoresFromOwnRead ==
    [][(RmwStores /\ Top.pc \in RmwOps) =>
          /\ reg'["PORTB"] = Apply(Top.pc, Top.x, MaskOf(Top.ctx))
          /\ (Top.depth = 0 /\ Top.x # reg["PORTB"]) => lost'.outside]_vars

\* main set its pins while a handler had set its pin in between: the
\* handler's bit is gone
C17_Witness ==
    /\ lost.outside
    /\ Len(stack) = 1
    /\ Top.pc = "run"
    /\ Top.depth = 0
    /\ reg["PORTB"] = 3

\* C18: between the read and the write of a read-modify-write that runs in
\* a critical section no handler runs and the register keeps the value that
\* was read, so no such write goes over a value it has not read
C18_AtomicInCS ==
    /\ \A k \in 1..Len(stack) :
          (stack[k].pc \in RmwPending /\ stack[k].depth > 0) =>
              /\ k = Len(stack)
              /\ I = FALSE
              /\ reg[TargetOf(stack[k].pc)] = stack[k].x
    /\ ~lost.inside

C18_Witness ==
    /\ Len(stack) = 1
    /\ Top.pc = "pins_write"
    /\ Top.depth = 1
    /\ reg["PORTB"] = 6
    /\ reg["DDRB"] = 3
    /\ Top.x = 6

----------------------------------------------------------------------------
(* Busy-wait on a register: src/avr/device/register.rs *)

\* iterations of the polling loop that are told apart
MaxPolls == 2

\* the bits of the register the hardware changes while the program waits
HwBits == 0..3

\* the masks waited for
WaitMasks == {0, 1, 4, 5, 10, 15}

\* a loop that goes on whatever the condition
wait_until_spin(f) == "poll"

\* wait_until: loop { if f() { break; } }
wait_until(f) == IF f THEN "returned" ELSE "poll"

\* the caller calls wait_until_mask_set_raw(mask)
Wait_call ==
    /\ wait.pc = "idle"
    /\ wait' = [wait EXCEPT !.pc = "poll"]
    /\ UNCHANGED <<I, counter, stack, shared, updates, RES, calls, item, out>>
    /\ UNCHANGED <<prog, mem, arg, dyn, ser, hist, reg, lost>>

\* one iteration of wait_until(|| Self::is_mask_set_raw(mask))
Wait_poll ==
    /\ wait.pc = "poll"
    /\ wait' = [pc |-> wait_until(is_mask_set_raw(mem, arg.mask)),
                read |-> read(mem),
                polls |-> IF wait.polls < MaxPolls THEN wait.polls + 1 ELSE wait.polls]
    /\ UNCHANGED <<I, counter, stack, shared, updates, RES, calls, item, out>>
    /\ UNCHANGED <<prog, mem, arg, dyn, ser, hist, reg, lost>>

\* the hardware changes one bit of the register
Hw_change(i) ==
    /\ mem' = write_volatile(BitXor(read_volatile(mem), Pow2(i)), arg.width)
    /\ UNCHANGED <<I, counter, stack, shared, updates, RES, calls, item, out>>
    /\ UNCHANGED <<prog, arg, dyn, ser, hist, wait, reg, lost>>

InitWait ==
    /\ I = FALSE
    /\ counter = 0
    /\ stack = <<Frame("main")>>
    /\ shared = 0
    /\ updates = 0
    /\ RES = ResInit
    /\ calls = 0
    /\ item = NoItem
    /\ out = NoItem
    /\ prog = NoProgram
    /\ arg \in {[width |-> 8, mask |-> m] : m \in WaitMasks}
    /\ mem \in {write_volatile(Pow2(i) - 1, 8) : i \in HwBits}
    /\ hist = <<>>
    /\ wait = NoWait
    /\ reg = ResetRegisters
    /\ lost = NoLost
    /\ dyn = NoDyn
    /\ ser = NoSerial

NextWait ==
    \/ Wait_call
    \/ Wait_poll
    \/ \E i \in HwBits : Hw_change(i)

SpecWait == InitWait /\ [][NextWait]_vars

\* the caller gets to the call and the loop keeps iterating
SpecWaitFair == SpecWait /\ WF_vars(Wait_call) /\ WF_vars(Wait_poll)

----------------------------------------------------------------------------
(* Properties of the busy-wait *)

\* all bits of the mask are 1 in the register
AllMaskBitsSet == MaskedBitsAre(read(mem), 1)

\* C19: wait_until_mask_set_raw(mask) returns only from an iteration whose
\* read of the register had all mask bits 1; every iteration reads the
\* register anew and no iteration writes a register
C19_ReturnsOnlyWhenSet ==
    /\ [](wait.pc = "returned" => MaskedBitsAre(wait.read, 1))
    /\ [][wait.pc = "poll" =>
             /\ mem' = mem \/ wait' = wait
             /\ reg' = reg
             /\ wait' # wait => wait'.read = read(mem)
             /\ wait'.pc = "returned" => AllMaskBitsSet]_vars
    /\ [][wait'.pc = "returned" => wait.pc \in {"poll", "returned"}]_vars

\* the second iteration saw bits 0 and 2 set, the first did not
C19_Witness ==
    /\ wait.pc = "returned"
    /\ wait.polls = 2
    /\ arg.mask = 5
    /\ wait.read = 7

\* C20: the call never returns when the register never has all mask bits
\* set, and it returns when from some point on the register keeps them set
C20_NoTimeout ==
    /\ ([]~AllMaskBitsSet) => [](wait.pc # "returned")
    /\ (<>[]AllMaskBitsSet) => <>(wait.pc = "returned")

C20_Witness ==
    /\ wait.pc = "returned"
    /\ wait.polls = MaxPolls
    /\ arg.mask = 15
    /\ wait.read = 15
    /\ AllMaskBitsSet

----------------------------------------------------------------------------
(* RegisterBits and the typed operations: src/avr/device/register.rs *)

\* RegisterBits::new
RegisterBits_new(mask) == [mask |-> mask]

\* RegisterBits::zero: RegisterBits::new(0u8.into())
RegisterBits_zero == RegisterBits_new(0)

\* impl BitOr for RegisterBits
RegisterBits_bitor(lhs, rhs) == RegisterBits_new(BitOr(lhs.mask, rhs.mask))

\* impl BitAnd for RegisterBits
RegisterBits_bitand(lhs, rhs) == RegisterBits_new(BitAnd(lhs.mask, rhs.mask))

\* impl Not for RegisterBits, on the register's value type
RegisterBits_not(lhs, width) == RegisterBits_new(BitNot(lhs.mask, width))

\* Register::set
Register_set(bytes, bits, width) == set_mask_raw(bytes, bits.mask, width)

\* an unset that hands the mask to set_mask_raw
Register_unset_sets(bytes, bits, width) == set_mask_raw(bytes, bits.mask, width)

\* Register::unset
Register_unset(bytes, bits, width) == unset_mask_raw(bytes, bits.mask, width)

\* Register::toggle
Register_toggle(bytes, bits, width) == toggle_raw(bytes, bits.mask, width)

\* Register::is_set
Register_is_set(bytes, bits) == is_mask_set_raw(bytes, bits.mask)

\* Register::is_clear
Register_is_clear(bytes, bits) == is_clear_raw(bytes, bits.mask)

\* Register::wait_until_mask_set_raw, one iteration of its loop
wait_until_mask_set_raw(bytes, mask) == wait_until(is_mask_set_raw(bytes, mask))

\* Register::wait_until_set, one iteration of its loop
Register_wait_until_set(bytes, bits) == wait_until_mask_set_raw(bytes, bits.mask)

\* the expressions that build the argument of the call from new(a) and new(b)
BitsExprs == {"a", "zero", "a | b", "a & b", "!a", "!a & b"}

BitsOf(expr, a, b, width) ==
    CASE expr = "a" -> RegisterBits_new(a)
      [] expr = "zero" -> RegisterBits_zero
      [] expr = "a | b" ->
            RegisterBits_bitor(RegisterBits_new(a), RegisterBits_new(b))
      [] expr = "a & b" ->
            RegisterBits_bitand(RegisterBits_new(a), RegisterBits_new(b))
      [] expr = "!a" -> RegisterBits_not(RegisterBits_new(a), width)
      [] expr = "!a & b" ->
            RegisterBits_bitand(RegisterBits_not(RegisterBits_new(a), width),
                                RegisterBits_new(b))

\* one call of a typed operation on the register
BitsCall(op, ret, after) ==
    /\ hist = <<>>
    /\ wait.pc = "idle"
    /\ mem' = after
    /\ hist' = <<[op |-> op, val |-> arg.bits, ret |-> ret,
                  before |-> mem, after |-> after]>>
    /\ UNCHANGED <<I, counter, stack, shared, updates, RES, calls, item, out>>
    /\ UNCHANGED <<prog, arg, dyn, ser, wait, reg, lost>>

Bits_set == BitsCall("set", FALSE, Register_set(mem, arg.bits, arg.width))

Bits_unset == BitsCall("unset", FALSE, Register_unset(mem, arg.bits, arg.width))

Bits_toggle == BitsCall("toggle", FALSE, Register_toggle(mem, arg.bits, arg.width))

Bits_is_set == BitsCall("is_set", Register_is_set(mem, arg.bits), mem)

Bits_is_clear == BitsCall("is_clear", Register_is_clear(mem, arg.bits), mem)

\* the caller calls wait_until_set(bits)
Bits_wait_call ==
    /\ hist = <<>>
    /\ wait.pc = "idle"
    /\ wait' = [wait EXCEPT !.pc = "poll"]
    /\ hist' = <<[op |-> "wait_until_set", val |-> arg.bits, ret |-> FALSE,
                  before |-> mem, after |-> mem]>>
    /\ UNCHANGED <<I, counter, stack, shared, updates, RES, calls, item, out>>
    /\ UNCHANGED <<prog, mem, arg, dyn, ser, reg, lost>>

\* one iteration of the loop of wait_until_set(bits)
Bits_wait_poll ==
    /\ wait.pc = "poll"
    /\ wait.polls < MaxPolls
    /\ wait' = [pc |-> Register_wait_until_set(mem, arg.bits),
                read |-> read(mem),
                polls |-> wait.polls + 1]
    /\ UNCHANGED <<I, counter, stack, shared, updates, RES, calls, item, out>>
    /\ UNCHANGED <<prog, mem, arg, dyn, ser, hist, reg, lost>>

\* the hardware sets the bits of the register
Bits_hw_set ==
    /\ wait.pc = "poll"
    /\ read(mem) # Pow2(arg.width) - 1
    /\ mem' = write_volatile(Pow2(arg.width) - 1, arg.width)
    /\ UNCHANGED <<I, counter, stack, shared, updates, RES, calls, item, out>>
    /\ UNCHANGED <<prog, arg, dyn, ser, hist, wait, reg, lost>>

\* a register of either width with some content, two masks and the
\* RegisterBits built from them
InitBits ==
    /\ I = FALSE
    /\ counter = 0
    /\ stack = <<Frame("main")>>
    /\ shared = 0
    /\ updates = 0
    /\ RES = ResInit
    /\ calls = 0
    /\ item = NoItem
    /\ out = NoItem
    /\ prog = NoProgram
    /\ arg \in {[width |-> w, mask |-> a, b |-> b, expr |-> e,
                 bits |-> BitsOf(e, a, b, w)] :
                    w \in Widths, a \in Masks(8) \cup Masks(16),
                    b \in Masks(8) \cup Masks(16), e \in BitsExprs}
    /\ arg.mask \in Masks(arg.width)
    /\ arg.b \in Masks(arg.width)
    /\ mem \in {write_volatile(r, arg.width) : r \in Values(arg.width)}
    /\ hist = <<>>
    /\ wait = NoWait
    /\ reg = ResetRegisters
    /\ lost = NoLost
    /\ dyn = NoDyn
    /\ ser = NoSerial

NextBits ==
    \/ Bits_set
    \/ Bits_unset
    \/ Bits_toggle
    \/ Bits_is_set
    \/ Bits_is_clear
    \/ Bits_wait_call
    \/ Bits_wait_poll
    \/ Bits_hw_set

SpecBits == InitBits /\ [][NextBits]_vars

(* Properties of the typed operations *)

\* the raw mask that the expression of the run denotes, bit by bit
DenotesBits(m) ==
    \A i \in Bits :
        Bit(m, i) =
            CASE arg.expr = "a" -> Bit(arg.mask, i)
              [] arg.expr = "zero" -> 0
              [] arg.expr = "a | b" ->
                    IF Bit(arg.mask, i) = 1 \/ Bit(arg.b, i) = 1 THEN 1 ELSE 0
              [] arg.expr = "a & b" ->
                    IF Bit(arg.mask, i) = 1 /\ Bit(arg.b, i) = 1 THEN 1 ELSE 0
              [] arg.expr = "!a" -> 1 - Bit(arg.mask, i)
              [] arg.expr = "!a & b" ->
                    IF Bit(arg.mask, i) = 0 /\ Bit(arg.b, i) = 1 THEN 1 ELSE 0

\* what the raw operation of that name gives for the raw mask m
RawOf(op, bytes, m) ==
    CASE op = "set" -> <<FALSE, set_mask_raw(bytes, m, arg.width)>>
      [] op = "unset" -> <<FALSE, unset_mask_raw(bytes, m, arg.width)>>
      [] op = "toggle" -> <<FALSE, toggle_raw(bytes, m, arg.width)>>
      [] op = "is_set" -> <<is_mask_set_raw(bytes, m), bytes>>
      [] op = "is_clear" -> <<is_clear_raw(bytes, m), bytes>>
      [] op = "wait_until_set" -> <<FALSE, bytes>>

\* C33: set, unset, toggle, is_set, is_clear and wait_until_set on a
\* RegisterBits value do what set_mask_raw, unset_mask_raw, toggle_raw,
\* is_mask_set_raw, is_clear_raw and wait_until_mask_set_raw do on its raw
\* mask; the raw mask of a | b, a & b and !a is the bitwise OR, AND and NOT
\* of the raw masks of the operands, and the raw mask of zero() is 0
C33_TypedAsRaw ==
    /\ DenotesBits(arg.bits.mask)
    /\ arg.bits.mask \in 0..(Pow2(arg.width) - 1)
    /\ hist # <<>> =>
          /\ hist[1].val = arg.bits
          /\ <<hist[1].ret, hist[1].after>> =
                RawOf(hist[1].op, hist[1].before, arg.bits.mask)
    /\ wait.polls > 0 =>
          /\ hist[1].op = "wait_until_set"
          /\ wait.pc = wait_until_mask_set_raw(
                          write_volatile(wait.read, arg.width), arg.bits.mask)

\* unset(!a & b) of a u16 register has cleared the bits of b that a lacks
C33_Witness ==
    /\ arg.width = 16
    /\ arg.expr = "!a & b"
    /\ arg.mask = 32769
    /\ arg.b = 65535
    /\ arg.bits = [mask |-> 32766]
    /\ hist # <<>>
    /\ hist[1].op = "unset"
    /\ read(hist[1].before) = 42480
    /\ read(mem) = 32768

----------------------------------------------------------------------------
(* Pins: src/avr/device/pin.rs, src/avr/device/atmega32/port.rs,            *)
(* src/robot_base/port.rs, src/rp6/robot_base/mod.rs                        *)

\* pin!(group, name, bit)
PinOf(group, bit) == [group |-> group, bit |-> bit]

\* the pins port.rs declares: a0..a7, b0..b7, c0..c7, d0..d7
DeclaredPins == {PinOf(g, b) : g \in {"A", "B", "C", "D"}, b \in 0..7}

\* const OFFSET: u8 = $mask_bit
OFFSET(pin) == pin.bit

\* a mask one bit further up
MASK_shifted(pin) == Pow2(pin.bit + 1) % 256

\* const MASK: u8 = 1 << $mask_bit
MASK(pin) == Pow2(pin.bit) % 256

\* type DDR = [<DDR $pin_group>]
DDR(pin) ==
    CASE pin.group = "A" -> "DDRA"
      [] pin.group = "B" -> "DDRB"
      [] pin.group = "C" -> "DDRC"
      [] pin.group = "D" -> "DDRD"

\* type PORT = [<PORT $pin_group>]
PORT(pin) ==
    CASE pin.group = "A" -> "PORTA"
      [] pin.group = "B" -> "PORTB"
      [] pin.group = "C" -> "PORTC"
      [] pin.group = "D" -> "PORTD"

\* type PIN = [<PIN $pin_group>]
PIN(pin) ==
    CASE pin.group = "A" -> "PINA"
      [] pin.group = "B" -> "PINB"
      [] pin.group = "C" -> "PINC"
      [] pin.group = "D" -> "PIND"

\* Pin::set_input
set_input(r, pin) ==
    [r EXCEPT ![DDR(pin)] = Apply("unset_mask_raw", @, MASK(pin))]

\* Pin::set_output
set_output(r, pin) ==
    [r EXCEPT ![DDR(pin)] = Apply("set_mask_raw", @, MASK(pin))]

\* Pin::set_direction
set_direction(r, pin, direction) ==
    IF direction = "Input" THEN set_input(r, pin) ELSE set_output(r, pin)

\* a set_high that stores the mask
set_high_store(r, pin) == [r EXCEPT ![PORT(pin)] = MASK(pin)]

\* Pin::set_high
set_high(r, pin) ==
    [r EXCEPT ![PORT(pin)] = Apply("set_mask_raw", @, MASK(pin))]

\* Pin::set_low
set_low(r, pin) ==
    [r EXCEPT ![PORT(pin)] = Apply("unset_mask_raw", @, MASK(pin))]

\* Pin::toggle
toggle(r, pin) ==
    [r EXCEPT ![PORT(pin)] = Apply("toggle_raw", @, MASK(pin))]

\* a query that reads the direction register
is_high_ddr(r, pin) == is_mask_set_raw(write(r[DDR(pin)], 8), MASK(pin))

\* Pin::is_high
is_high(r, pin) == is_mask_set_raw(write(r[PIN(pin)], 8), MASK(pin))

\* Pin::is_low
is_low(r, pin) == is_clear_raw(write(r[PIN(pin)], 8), MASK(pin))

\* the offsets of a list of pins
Offsets(pins) == [i \in 1..Len(pins) |-> OFFSET(pins[i])]

RECURSIVE MaskOfPins(_)
\* let pin_mask = $base_pin::MASK $(| $pin::MASK)*
MaskOfPins(pins) ==
    IF pins = <<>> THEN 0 ELSE BitOr(MASK(Head(pins)), MaskOfPins(Tail(pins)))

\* a list that is handed on as it is
ReverseNot(pins) == pins

\* the list of pins as set_pins!(@reverse_for_output_mask ...) hands it to
\* @output_mask: the last-listed pin first
Reversed(pins) == Reverse(pins)

\* a set_pins! that stores the output mask alone
set_pins_store(r, pins, value) ==
    LET pin_mask == MaskOfPins(pins)
        r1 == [r EXCEPT ![DDR(pins[1])] = Apply("set_mask_raw", @, pin_mask)]
    IN [r1 EXCEPT ![PORT(pins[1])] = output_mask(Offsets(Reversed(pins)), value)]

\* set_pins!([$base_pin, $($pin),*], $value)
set_pins(r, pins, value) ==
    LET pin_mask == MaskOfPins(pins)
        r1 == [r EXCEPT ![DDR(pins[1])] = Apply("set_mask_raw", @, pin_mask)]
    IN [r1 EXCEPT ![PORT(pins[1])] =
           BitOr(BitAnd(read(write(r1[PORT(pins[1])], 8)), BitNot(pin_mask, 8)),
                 output_mask(Offsets(Reversed(pins)), value))]

\* robot_base/port.rs: the LEDs of the RP6
Led1 == PinOf("C", 4)

Led2 == PinOf("C", 5)

Led3 == PinOf("C", 6)

Led4 == PinOf("B", 7)

Led5 == PinOf("B", 1)

Led6 == PinOf("B", 0)

\* a set_leds that hands the whole value to both groups
set_leds_unshifted(r, value) ==
    set_pins(set_pins(r, <<Led3, Led2, Led1>>, value), <<Led6, Led5, Led4>>, value)

\* RobotBase::set_leds
set_leds(r, value) ==
    set_pins(set_pins(r, <<Led3, Led2, Led1>>, value),
             <<Led6, Led5, Led4>>, value \div 8)

\* the values the direction and output registers hold before a call
DdrSamples == {0, 165}

PortSamples == {90, 165}

\* the levels at the pins before a call
PinSamples == {15, 240}

\* ports A and B hold one draw, ports C and D another
RegsFrom(d1, o1, d2, o2, i) ==
    [n \in RegisterNames |->
        CASE n \in {"DDRA", "DDRB"} -> d1
          [] n \in {"PORTA", "PORTB"} -> o1
          [] n \in {"DDRC", "DDRD"} -> d2
          [] n \in {"PORTC", "PORTD"} -> o2
          [] OTHER -> i]

\* the lists set_pins! is applied to, each of pins of one port
PinLists ==
    {<<Led3, Led2, Led1>>, <<Led6, Led5, Led4>>,
     <<PinOf("D", 0), PinOf("D", 7)>>,
     <<PinOf("A", 3), PinOf("A", 2), PinOf("A", 1), PinOf("A", 0)>>}

\* the values set_pins! is handed
PinListValues == 0..31

\* the values set_leds is handed: every u8
LedValues == 0..255

\* one call on the pins: the registers after it, the registers written in
\* order, and what the call got and gave
PinCall(op, pins, value, ret, writes, after) ==
    /\ hist = <<>>
    /\ reg' = after
    /\ hist' = <<[op |-> op, pins |-> pins, value |-> value, ret |-> ret,
                  writes |-> writes, before |-> reg]>>
    /\ UNCHANGED <<I, counter, stack, shared, updates, RES, calls, item, out>>
    /\ UNCHANGED <<prog, mem, arg, dyn, ser, wait, lost>>

Pin_set_direction(pin, direction) ==
    PinCall(<<"set_direction", direction>>, <<pin>>, 0, FALSE, <<DDR(pin)>>,
            set_direction(reg, pin, direction))

Pin_set_input(pin) ==
    PinCall(<<"set_input">>, <<pin>>, 0, FALSE, <<DDR(pin)>>, set_input(reg, pin))

Pin_set_output(pin) ==
    PinCall(<<"set_output">>, <<pin>>, 0, FALSE, <<DDR(pin)>>, set_output(reg, pin))

Pin_set_high(pin) ==
    PinCall(<<"set_high">>, <<pin>>, 0, FALSE, <<PORT(pin)>>, set_high(reg, pin))

Pin_set_low(pin) ==
    PinCall(<<"set_low">>, <<pin>>, 0, FALSE, <<PORT(pin)>>, set_low(reg, pin))

Pin_toggle(pin) ==
    PinCall(<<"toggle">>, <<pin>>, 0, FALSE, <<PORT(pin)>>, toggle(reg, pin))

Pin_is_high(pin) ==
    PinCall(<<"is_high">>, <<pin>>, 0, is_high(reg, pin), <<>>, reg)

Pin_is_low(pin) ==
    PinCall(<<"is_low">>, <<pin>>, 0, is_low(reg, pin), <<>>, reg)

Pins_set(pins, value) ==
    PinCall(<<"set_pins">>, pins, value, FALSE, <<DDR(pins[1]), PORT(pins[1])>>,
            set_pins(reg, pins, value))

Leds_set(value) ==
    PinCall(<<"set_leds">>, <<>>, value, FALSE,
            <<DDR(Led3), PORT(Led3), DDR(Led6), PORT(Led6)>>,
            set_leds(reg, value))

InitPin ==
    /\ I = FALSE
    /\ counter = 0
    /\ stack = <<Frame("main")>>
    /\ shared = 0
    /\ updates = 0
    /\ RES = ResInit
    /\ calls = 0
    /\ item = NoItem
    /\ out = NoItem
    /\ prog = NoProgram
    /\ mem = <<0>>
    /\ arg = NoArg
    /\ hist = <<>>
    /\ wait = NoWait
    /\ reg \in {RegsFrom(d1, o1, d2, o2, i) :
                  d1 \in DdrSamples, o1 \in PortSamples,
                  d2 \in DdrSamples, o2 \in PortSamples, i \in PinSamples}
    /\ lost = NoLost
    /\ dyn = NoDyn
    /\ ser = NoSerial

NextPin ==
    \/ \E pin \in DeclaredPins, d \in {"Input", "Output"} : Pin_set_direction(pin, d)
    \/ \E pin \in DeclaredPins : Pin_set_input(pin)
    \/ \E pin \in DeclaredPins : Pin_set_output(pin)
    \/ \E pin \in DeclaredPins : Pin_set_high(pin)
    \/ \E pin \in DeclaredPins : Pin_set_low(pin)
    \/ \E pin \in DeclaredPins : Pin_toggle(pin)
    \/ \E pin \in DeclaredPins : Pin_is_high(pin)
    \/ \E pin \in DeclaredPins : Pin_is_low(pin)
    \/ \E pins \in PinLists, value \in PinListValues : Pins_set(pins, value)
    \/ \E value \in LedValues : Leds_set(value)

SpecPin == InitPin /\ [][NextPin]_vars

----------------------------------------------------------------------------
(* Properties of the pins *)

\* the positions at which n has a 1
OnesOf(n) == {i \in 0..7 : Bit(n, i) = 1}

\* the pins of one port
PinsOfGroup(g) == {pin \in DeclaredPins : pin.group = g}

\* the call that was made, its pin and the registers before it
Done(op) == hist # <<>> /\ hist[1].op = op

ThePin == hist[1].pins[1]

Before == hist[1].before

\* bit i of register n is b now, every other bit of it and every other
\* register being as before the call
OnlyBitIs(n, i, b) ==
    /\ reg[n] \in 0..255
    /\ Bit(reg[n], i) = b
    /\ \A j \in 0..7 : j # i => Bit(reg[n], j) = Bit(Before[n], j)
    /\ \A m \in RegisterNames : m # n => reg[m] = Before[m]

\* C21: the mask of every declared pin a call works on is 1 << OFFSET with
\* OFFSET in 0..7: it has one bit, it is disjoint from the masks of the other
\* pins of its port, and the masks of the eight pins of the port cover the
\* eight bits
C21_PinMasks ==
    hist # <<>> =>
        \A pin \in {hist[1].pins[i] : i \in 1..Len(hist[1].pins)} :
            /\ OFFSET(pin) \in 0..7
            /\ MASK(pin) = Pow2(OFFSET(pin))
            /\ OnesOf(MASK(pin)) = {OFFSET(pin)}
            /\ Cardinality(PinsOfGroup(pin.group)) = 8
            /\ \A p2 \in PinsOfGroup(pin.group) :
                  p2 # pin => BitAnd(MASK(pin), MASK(p2)) = 0
            /\ UNION {OnesOf(MASK(p2)) : p2 \in PinsOfGroup(pin.group)} = 0..7

C21_Witness ==
    /\ Done(<<"set_output">>)
    /\ ThePin = PinOf("D", 7)
    /\ Before["DDRD"] = 0
    /\ reg["DDRD"] = 128

\* C22: set_direction(Output) and set_output set, set_direction(Input) and
\* set_input clear the bit of the pin in the direction register; set_high
\* sets, set_low clears and toggle inverts it in the output register; no other
\* bit of the register and no other register changes
C22_PinFrame ==
    /\ Done(<<"set_output">>) => OnlyBitIs(DDR(ThePin), OFFSET(ThePin), 1)
    /\ Done(<<"set_direction", "Output">>) =>
          OnlyBitIs(DDR(ThePin), OFFSET(ThePin), 1)
    /\ Done(<<"set_input">>) => OnlyBitIs(DDR(ThePin), OFFSET(ThePin), 0)
    /\ Done(<<"set_direction", "Input">>) =>
          OnlyBitIs(DDR(ThePin), OFFSET(ThePin), 0)
    /\ Done(<<"set_high">>) => OnlyBitIs(PORT(ThePin), OFFSET(ThePin), 1)
    /\ Done(<<"set_low">>) => OnlyBitIs(PORT(ThePin), OFFSET(ThePin), 0)
    /\ Done(<<"toggle">>) =>
          OnlyBitIs(PORT(ThePin), OFFSET(ThePin),
                    1 - Bit(Before[PORT(ThePin)], OFFSET(ThePin)))

C22_Witness ==
    /\ Done(<<"set_high">>)
    /\ ThePin = PinOf("B", 1)
    /\ Before["PORTB"] = 165
    /\ reg["PORTB"] = 167
    /\ reg["DDRB"] = 0
    /\ reg["PINB"] = 240

\* the level set_pins! gave the i-th listed pin
LevelOfListed(i) ==
    Bit(reg[PORT(hist[1].pins[i])], OFFSET(hist[1].pins[i]))

\* C24 as claimed: bit i-1 of the value drives the i-th listed pin, the
\* lowest bit the first-listed pin
C24_LsbToFirstListed ==
    Done(<<"set_pins">>) =>
        \A i \in 1..Len(hist[1].pins) : LevelOfListed(i) = Bit(hist[1].value, i - 1)

\* C24 amended: bit k-i of the value drives the i-th of the k listed pins,
\* the lowest bit the last-listed pin
C24_LsbToLastListed ==
    Done(<<"set_pins">>) =>
        \A i \in 1..Len(hist[1].pins) :
            LevelOfListed(i) = Bit(hist[1].value, Len(hist[1].pins) - i)

C24_Witness ==
    /\ Done(<<"set_pins">>)
    /\ hist[1].pins = <<Led3, Led2, Led1>>
    /\ hist[1].value = 1
    /\ Before["PORTC"] = 90
    /\ reg["PORTC"] = 26

\* the bits of the listed pins
ListedBits == {OFFSET(hist[1].pins[i]) : i \in 1..Len(hist[1].pins)}

\* C29: set_pins! sets the bits of the listed pins in the direction register
\* and leaves its other bits, writes the output register once with the bits
\* outside the listed pins as they were, changes no other register, and the
\* bits of the value from position k on have no effect
C29_SetPinsFrame ==
    Done(<<"set_pins">>) =>
        LET d == DDR(hist[1].pins[1])
            o == PORT(hist[1].pins[1])
            k == Len(hist[1].pins)
        IN /\ OnesOf(reg[d]) = OnesOf(Before[d]) \cup ListedBits
           /\ reg[d] \in 0..255
           /\ reg[o] \in 0..255
           /\ \A j \in 0..7 : j \notin ListedBits => Bit(reg[o], j) = Bit(Before[o], j)
           /\ \A m \in RegisterNames : m \notin {d, o} => reg[m] = Before[m]
           /\ Cardinality({j \in 1..Len(hist[1].writes) : hist[1].writes[j] = o}) = 1
           /\ reg = set_pins(Before, hist[1].pins, hist[1].value % Pow2(k))

C29_Witness ==
    /\ Done(<<"set_pins">>)
    /\ hist[1].pins = <<PinOf("D", 0), PinOf("D", 7)>>
    /\ hist[1].value = 29
    /\ Before["PORTD"] = 90
    /\ Before["DDRD"] = 0
    /\ reg["PORTD"] = 218
    /\ reg["DDRD"] = 129

\* LED(i) of the RP6
Led(i) ==
    CASE i = 1 -> Led1 [] i = 2 -> Led2 [] i = 3 -> Led3
      [] i = 4 -> Led4 [] i = 5 -> Led5 [] i = 6 -> Led6

\* C30: after set_leds(value) LED(i+1) is high iff bit i of the value is 1,
\* for i in 0..5; bits 6 and 7 of the value have no effect and the other bits
\* of PORTB and PORTC are as before
C30_Leds ==
    Done(<<"set_leds">>) =>
        /\ \A i \in 0..5 :
              Bit(reg[PORT(Led(i + 1))], OFFSET(Led(i + 1))) = Bit(hist[1].value, i)
        /\ \A j \in 0..7 :
              /\ j \notin {0, 1, 7} => Bit(reg["PORTB"], j) = Bit(Before["PORTB"], j)
              /\ j \notin {4, 5, 6} => Bit(reg["PORTC"], j) = Bit(Before["PORTC"], j)
        /\ reg["PORTB"] \in 0..255
        /\ reg["PORTC"] \in 0..255

C30_Witness ==
    /\ Done(<<"set_leds">>)
    /\ hist[1].value = 229
    /\ Before["PORTB"] = 90
    /\ Before["PORTC"] = 165
    /\ reg["PORTB"] = 89
    /\ reg["PORTC"] = 213

----------------------------------------------------------------------------
(* A pin driven as output and read back: src/avr/device/pin.rs *)

\* the pin drivers and synchronizers of the port: the input register shows
\* the output register's bit at every pin that is configured as output and
\* the level applied from outside at the others
Settle(r, pin) ==
    [r EXCEPT ![PIN(pin)] =
        BitOr(BitAnd(r[PORT(pin)], r[DDR(pin)]),
              BitAnd(r[PIN(pin)], BitNot(r[DDR(pin)], 8)))]

\* one step of the scenario: the registers after it, the register it wrote
\* and the answers it got
ScenarioStep(op, target, after, ret) ==
    /\ reg' = after
    /\ hist' = Append(hist, [op |-> op, target |-> target, ret |-> ret,
                             value |-> IF target = "" THEN 0 ELSE after[target]])
    /\ UNCHANGED <<I, counter, stack, shared, updates, RES, calls, item, out>>
    /\ UNCHANGED <<prog, mem, arg, dyn, ser, wait, lost>>

\* pin::set_output()
Scn_set_output ==
    /\ Len(hist) = 0
    /\ ScenarioStep("set_output", DDR(arg.pin),
                    Settle(set_output(reg, arg.pin), arg.pin), <<>>)

\* pin::set_high(), the first and the second time
Scn_set_high ==
    /\ Len(hist) \in {1, 5}
    /\ ScenarioStep("set_high", PORT(arg.pin),
                    Settle(set_high(reg, arg.pin), arg.pin), <<>>)

\* pin::set_low()
Scn_set_low ==
    /\ Len(hist) = 3
    /\ ScenarioStep("set_low", PORT(arg.pin),
                    Settle(set_low(reg, arg.pin), arg.pin), <<>>)

\* pin::is_high() and pin::is_low() after a level was written
Scn_query ==
    /\ Len(hist) \in {2, 4, 6}
    /\ ScenarioStep("query", "", reg,
                    <<is_high(reg, arg.pin), is_low(reg, arg.pin)>>)

InitScenario ==
    /\ I = FALSE
    /\ counter = 0
    /\ stack = <<Frame("main")>>
    /\ shared = 0
    /\ updates = 0
    /\ RES = ResInit
    /\ calls = 0
    /\ item = NoItem
    /\ out = NoItem
    /\ prog = NoProgram
    /\ mem = <<0>>
    /\ arg \in {[pin |-> pin] : pin \in DeclaredPins}
    /\ hist = <<>>
    /\ wait = NoWait
    /\ reg \in {RegsFrom(d1, o1, d2, o2, i) :
                  d1 \in DdrSamples, o1 \in PortSamples,
                  d2 \in DdrSamples, o2 \in PortSamples, i \in PinSamples}
    /\ lost = NoLost
    /\ dyn = NoDyn
    /\ ser = NoSerial

NextScenario ==
    \/ Scn_set_output
    \/ Scn_set_high
    \/ Scn_set_low
    \/ Scn_query

SpecScenario == InitScenario /\ [][NextScenario]_vars

\* the writes of the scenario so far, in order
WritesOf(target) ==
    SelectSeq(hist, LAMBDA e : e.target = target)

AllWrites == SelectSeq(hist, LAMBDA e : e.target # "")

\* a and b differ in bit i and in no other
DifferOnlyIn(a, b, i) ==
    \A j \in 0..7 : (Bit(a, j) # Bit(b, j)) <=> (j = i)

\* the query at step k reports the level: high iff level = 1
Reports(k, level) ==
    Len(hist) >= k => hist[k].ret = <<level = 1, level = 0>>

\* after each level write the queries report the level just written
ReadsBack == Reports(3, 1) /\ Reports(5, 0) /\ Reports(7, 1)

\* C23 as claimed: the scenario makes exactly two writes, which differ in the
\* bit of the pin only, and the queries report the level just written
C23_TwoWrites ==
    /\ ReadsBack
    /\ Len(hist) = 7 =>
          /\ Len(AllWrites) = 2
          /\ DifferOnlyIn(AllWrites[1].value, AllWrites[2].value, OFFSET(arg.pin))

\* C23 amended: the scenario writes the direction register once and the
\* output register three times; the three values are two different ones,
\* the first and the third being equal, and the two differ in the bit of the
\* pin only; the queries report the level just written
C23_TwoValues ==
    /\ ReadsBack
    /\ Len(hist) = 7 =>
          LET w == WritesOf(PORT(arg.pin)) IN
          /\ Len(WritesOf(DDR(arg.pin))) = 1
          /\ Len(w) = 3
          /\ Len(AllWrites) = 4
          /\ w[1].value = w[3].value
          /\ DifferOnlyIn(w[1].value, w[2].value, OFFSET(arg.pin))
          /\ Bit(w[1].value, OFFSET(arg.pin)) = 1

C23_Witness ==
    /\ Len(hist) = 7
    /\ arg.pin = PinOf("C", 4)
    /\ hist[3].ret = <<TRUE, FALSE>>
    /\ hist[5].ret = <<FALSE, TRUE>>
    /\ hist[7].ret = <<TRUE, FALSE>>
    /\ reg["PORTC"] = 181
    /\ reg["DDRC"] = 16

----------------------------------------------------------------------------
(* A program of several items with static mut at their top:               *)
(* src/macros/src/lib.rs                                                  *)

\* function items of one program
MaxItems == 2
\* static mut items at the top of one body
MaxStatics == 2

ResourceNames == {"A", "B"}

\* the entry routine and two handlers, each with up to MaxStatics static mut
BuildItems ==
    {[macro |-> IF n = "main" THEN "entry" ELSE "interrupt",
      ident |-> n,
      sig |-> [SigPlain EXCEPT !.output = IF n = "main" THEN "never" ELSE "default"],
      args_empty |-> TRUE,
      stmts |-> b] :
        n \in {"main", "INT0", "INT1"},
        b \in SeqsUpTo({StaticMut(r) : r \in ResourceNames}, MaxStatics)}

\* one cell for every name, whichever function declares it
StaticPath_global(trampoline, name) == <<"static", name>>

\* the static is an item of a block inside the trampoline, so its path is
\* the trampoline's and then its name: { static mut X: T = e; &mut X }
StaticPath(trampoline, name) == <<trampoline, name>>

\* the cells the resource_args of one expansion declare
StaticsOf(t) ==
    {StaticPath(t.trampoline, t.resource_args[i].ident) :
        i \in 1..Len(t.resource_args)}

Expand(f) == IF f.macro = "entry" THEN entry(f) ELSE interrupt(f)

\* one more function item of the crate is expanded and compiled in: a compile
\* error of its macro rejects the program, and so does a second item under an
\* exported symbol
RegisterItem(f) ==
    /\ ~prog.conflict
    /\ prog.rejected = <<>>
    /\ LET t == Expand(f) IN
         IF t.kind = "compile_error"
         THEN prog' = [prog EXCEPT !.rejected = <<[item |-> f, error |-> t]>>,
                                   !.last = f.ident]
         ELSE /\ t.export_name \in prog.symbols \/ Len(prog.items) < MaxItems
              /\ prog' = IF t.export_name \in prog.symbols
                         THEN [prog EXCEPT !.conflict = TRUE, !.last = f.ident]
                         ELSE [prog EXCEPT
                                 !.handlers = Append(prog.handlers, f.ident),
                                 !.symbols = prog.symbols \cup {t.export_name},
                                 !.items = Append(prog.items, t),
                                 !.statics = prog.statics \cup StaticsOf(t),
                                 !.last = f.ident]
    /\ UNCHANGED <<I, counter, stack, shared, updates, RES, calls, item, out>>
    /\ UNCHANGED <<mem, arg, dyn, ser, hist, wait, reg, lost>>

NextBuild == \E f \in BuildItems : RegisterItem(f)

(* Properties of a program of several items *)

\* the names of the resources the i-th accepted item declares
ResourcesOf(i) ==
    {prog.items[i].resource_args[k].ident :
        k \in 1..Len(prog.items[i].resource_args)}

RECURSIVE ResourceCount(_)
ResourceCount(n) ==
    IF n = 0 THEN 0
    ELSE Len(prog.items[n].resource_args) + ResourceCount(n - 1)

Accepted == ~prog.conflict /\ prog.rejected = <<>>

\* C26 as claimed: no two resources share a name within one item or across
\* items, a program in which two items declare a resource of the same name
\* is rejected
C26_NoSharedName ==
    Accepted =>
        \A i \in 1..Len(prog.items), j \in 1..Len(prog.items) :
            i # j => ResourcesOf(i) \cap ResourcesOf(j) = {}

\* C26 amended: no two resources of one item share a name, an item that
\* declares a name twice is rejected with the error that names it; two items
\* that declare the same name are both accepted, and each declaration has a
\* storage cell of its own
C26_NoSharedNameInItem ==
    /\ \A i \in 1..Len(prog.items) :
          Cardinality(ResourcesOf(i)) = Len(prog.items[i].resource_args)
    /\ prog.rejected # <<>> =>
          LET f == prog.rejected[1].item IN
            /\ HasDuplicate(f.stmts)
            /\ prog.rejected[1].error = CompileError(
                  <<"the name ", f.stmts[FirstDuplicate(f.stmts)].ident,
                    " is defined multiple times">>)
    /\ Cardinality(prog.statics) = ResourceCount(Len(prog.items))
    /\ \A f \in BuildItems :
          (Accepted /\ ~HasDuplicate(f.stmts)
              /\ Expand(f).export_name \notin prog.symbols
              /\ Len(prog.items) < MaxItems)
          => ENABLED RegisterItem(f)

\* the entry routine and a handler that both declare A are accepted, with
\* two cells
C26_Witness ==
    /\ Accepted
    /\ prog.handlers = <<"main", "INT0">>
    /\ ResourcesOf(1) = {"A"}
    /\ ResourcesOf(2) = {"A", "B"}
    /\ Cardinality(prog.statics) = 3

----------------------------------------------------------------------------
(* DynamicMutex: src/avr/interrupt/mutex.rs                               *)
(* lock(&cs) hands out the RefCell for the lifetime of the critical       *)
(* section; the RefCell keeps a borrow flag, the number of Ref guards     *)
(* alive, or -1 while a RefMut guard is alive.                            *)

\* Ref guards one critical section holds at the same time
MaxBorrows == 2

\* the values written through a RefMut guard
DynValues == {1, 2}

\* a mutable borrow that only checks that no other RefMut is alive
BorrowMutOk_no_writer(flag) == flag >= 0

\* RefCell::borrow_mut succeeds when no guard at all is alive
BorrowMutOk(flag) == flag = 0

\* RefCell::borrow succeeds when no RefMut guard is alive
BorrowOk(flag) == flag >= 0

dynUnchanged ==
    UNCHANGED <<I, counter, stack, shared, updates, RES, calls, item, out,
                prog, mem, arg, hist, wait, reg, lost, ser>>

\* DynamicMutex::lock needs the token of a live critical section
Dyn_locked == CanLock(Top) /\ ~dyn.panicked

\* mutex.lock(&cs).borrow()
Dyn_borrow ==
    /\ Dyn_locked
    /\ dyn.flag < MaxBorrows
    /\ dyn' = IF BorrowOk(dyn.flag)
              THEN [dyn EXCEPT !.flag = dyn.flag + 1, !.tried = "borrow"]
              ELSE [dyn EXCEPT !.panicked = TRUE, !.tried = "borrow"]
    /\ dynUnchanged

\* mutex.lock(&cs).borrow_mut()
Dyn_borrow_mut ==
    /\ Dyn_locked
    /\ dyn' = IF BorrowMutOk(dyn.flag)
              THEN [dyn EXCEPT !.flag = -1, !.tried = "borrow_mut"]
              ELSE [dyn EXCEPT !.panicked = TRUE, !.tried = "borrow_mut"]
    /\ dynUnchanged

\* a Ref guard goes out of scope
Dyn_drop_ref ==
    /\ Dyn_locked
    /\ dyn.flag > 0
    /\ dyn' = [dyn EXCEPT !.flag = dyn.flag - 1, !.tried = "drop"]
    /\ dynUnchanged

\* the RefMut guard goes out of scope
Dyn_drop_ref_mut ==
    /\ Dyn_locked
    /\ dyn.flag = -1
    /\ dyn' = [dyn EXCEPT !.flag = 0, !.tried = "drop"]
    /\ dynUnchanged

\* *guard = v through the RefMut guard
Dyn_write(v) ==
    /\ Dyn_locked
    /\ dyn.flag = -1
    /\ dyn' = [dyn EXCEPT !.value = v, !.tried = "write"]
    /\ dynUnchanged

\* the guards borrow from the token ('access_time), so the critical
\* section is dropped only once they are gone
Dyn_cs_drop ==
    /\ dyn.flag = 0
    /\ CS_drop_get

\* a panic ends the program
NextDyn ==
    /\ ~dyn.panicked
    /\ \/ CS_new
       \/ CS_new_get
       \/ CS_new_set
       \/ Dyn_cs_drop
       \/ CS_drop_sei
       \/ CS_drop_set
       \/ Dyn_borrow
       \/ Dyn_borrow_mut
       \/ Dyn_drop_ref
       \/ Dyn_drop_ref_mut
       \/ \E v \in DynValues : Dyn_write(v)

(* Properties of DynamicMutex *)

\* the call that made this step
DynTried(op) == dyn' # dyn /\ dyn'.tried = op

\* C25: with a live critical section, a mutable borrow of the value of a
\* DynamicMutex while any other borrow of it is alive, and a shared borrow
\* while a mutable one is alive, panic and leave the value as it was; a
\* borrow that conflicts with none succeeds.
C25_DynamicBorrows ==
    [][/\ DynTried("borrow_mut") =>
             /\ CanLock(Top)
             /\ dyn'.value = dyn.value
             /\ dyn'.panicked = (dyn.flag # 0)
             /\ dyn.flag = 0 => dyn'.flag = -1
             /\ dyn.flag # 0 => dyn'.flag = dyn.flag
       /\ DynTried("borrow") =>
             /\ CanLock(Top)
             /\ dyn'.value = dyn.value
             /\ dyn'.panicked = (dyn.flag = -1)
             /\ dyn.flag >= 0 => dyn'.flag = dyn.flag + 1
             /\ dyn.flag = -1 => dyn'.flag = dyn.flag]_vars

\* a mutable borrow has panicked under a shared one, after a value was written
C25_Witness ==
    /\ dyn.panicked
    /\ dyn.tried = "borrow_mut"
    /\ dyn.flag = 1
    /\ dyn.value = 2

----------------------------------------------------------------------------
(* DynamicMutex shared by main and the handlers, disciplined use: every    *)
(* Ref / RefMut is taken from lock(&cs) inside a without_interrupts        *)
(* closure and dropped before that closure returns.  dyn.guards lists the  *)
(* guards alive, each with the context and the closure that took it.       *)

Guard(m) == [lvl |-> Len(stack), depth |-> Top.depth, mut |-> m]

\* the guards the running context holds itself
OwnGuards == {i \in 1..Len(dyn.guards) : dyn.guards[i].lvl = Len(stack)}

RemoveAt(q, i) == SubSeq(q, 1, i - 1) \o SubSeq(q, i + 1, Len(q))

discUnchanged ==
    UNCHANGED <<I, counter, stack, shared, updates, RES, calls, item, out,
                prog, mem, arg, hist, wait, reg, lost, ser>>

\* mutex.lock(&cs).borrow() in a context that holds no RefMut of its own
Disc_borrow ==
    /\ Dyn_locked
    /\ Len(dyn.guards) < MaxBorrows
    /\ \A i \in OwnGuards : ~dyn.guards[i].mut
    /\ dyn' = IF BorrowOk(dyn.flag)
              THEN [dyn EXCEPT !.flag = dyn.flag + 1, !.tried = "borrow",
                               !.guards = Append(dyn.guards, Guard(FALSE))]
              ELSE [dyn EXCEPT !.panicked = TRUE, !.tried = "borrow"]
    /\ discUnchanged

\* mutex.lock(&cs).borrow_mut() in a context that holds no guard of its own
Disc_borrow_mut ==
    /\ Dyn_locked
    /\ OwnGuards = {}
    /\ dyn' = IF BorrowMutOk(dyn.flag)
              THEN [dyn EXCEPT !.flag = -1, !.tried = "borrow_mut",
                               !.guards = Append(dyn.guards, Guard(TRUE))]
              ELSE [dyn EXCEPT !.panicked = TRUE, !.tried = "borrow_mut"]
    /\ discUnchanged

\* a guard of the running context goes out of scope
Disc_drop_guard ==
    /\ Dyn_locked
    /\ \E i \in OwnGuards :
          dyn' = [dyn EXCEPT
                    !.flag = IF dyn.guards[i].mut THEN 0 ELSE dyn.flag - 1,
                    !.tried = "drop",
                    !.guards = RemoveAt(dyn.guards, i)]
    /\ discUnchanged

\* *guard = v through the RefMut of the running context
Disc_write(v) ==
    /\ Dyn_locked
    /\ \E i \in OwnGuards : dyn.guards[i].mut
    /\ dyn.value # v
    /\ dyn' = [dyn EXCEPT !.value = v, !.tried = "write"]
    /\ discUnchanged

\* the closure returns once the guards taken in it are gone
Disc_cs_drop ==
    /\ \A i \in OwnGuards : dyn.guards[i].depth < Top.depth
    /\ CS_drop_get

NextDisc ==
    /\ ~dyn.panicked
    /\ \/ CS_new
       \/ CS_new_get
       \/ CS_new_set
       \/ Disc_cs_drop
       \/ CS_drop_sei
       \/ CS_drop_set
       \/ Disc_borrow
       \/ Disc_borrow_mut
       \/ Disc_drop_guard
       \/ \E v \in DynValues : Disc_write(v)
       \/ \E h \in Handlers : Dispatch(h)
       \/ Reti

(* Properties of the disciplined use *)

\* C32: when every borrow of a DynamicMutex is taken and released inside
\* one without_interrupts closure, no interleaving of main and the handlers
\* reaches the panic of a conflicting borrow: every guard alive belongs to
\* the running context, and the borrow flag counts its guards
C32_NoBorrowPanic ==
    /\ ~dyn.panicked
    /\ \A i \in 1..Len(dyn.guards) : dyn.guards[i].lvl = Len(stack)
    /\ dyn.flag = IF \E i \in 1..Len(dyn.guards) : dyn.guards[i].mut
                  THEN -1 ELSE Len(dyn.guards)

\* a handler that preempted main between the SEI and the counter store of
\* its exit holds the RefMut, main has written through its own before
C32_Witness ==
    /\ Len(stack) = 2
    /\ stack[1].pc = "drop_set"
    /\ dyn.value = 2
    /\ dyn.guards = <<[lvl |-> 2, depth |-> 1, mut |-> TRUE]>>
    /\ dyn.tried = "borrow_mut"

----------------------------------------------------------------------------
(* Numbers written to the serial line: src/rp6/uart/serial_writable.rs     *)
(* A value is the sequence of its bytes, most significant first; a         *)
(* rendering is a sequence of characters.                                  *)

\* impl_serial_writable_num!(u8) .. (isize); usize and isize have 2 bytes
NumTypes ==
    {[name |-> "u8", size |-> 1, signed |-> FALSE],
     [name |-> "u16", size |-> 2, signed |-> FALSE],
     [name |-> "u32", size |-> 4, signed |-> FALSE],
     [name |-> "u64", size |-> 8, signed |-> FALSE],
     [name |-> "u128", size |-> 16, signed |-> FALSE],
     [name |-> "usize", size |-> 2, signed |-> FALSE],
     [name |-> "i8", size |-> 1, signed |-> TRUE],
     [name |-> "i16", size |-> 2, signed |-> TRUE],
     [name |-> "i32", size |-> 4, signed |-> TRUE],
     [name |-> "i64", size |-> 8, signed |-> TRUE],
     [name |-> "i128", size |-> 16, signed |-> TRUE],
     [name |-> "isize", size |-> 2, signed |-> TRUE]}

\* a decimal buffer of 3 characters per byte
size_dec_three(size) == 3 * size

\* $size_dec: 4 * size_of::<$type>()
size_dec(size) == 4 * size

\* $size_oct: 3 * size_of::<$type>()
size_oct(size) == 3 * size

\* Hexadecimal: 2 * size_of::<$type>()
size_hex(size) == 2 * size

\* Binary: 8 * size_of::<$type>()
size_bin(size) == 8 * size

Bases == {"dec", "hex", "oct", "bin"}

Radix(base) ==
    CASE base = "dec" -> 10 [] base = "hex" -> 16
      [] base = "oct" -> 8 [] base = "bin" -> 2

\* String<{ $size }> of the base
CapacityOf(base, size) ==
    CASE base = "dec" -> size_dec(size) [] base = "hex" -> size_hex(size)
      [] base = "oct" -> size_oct(size) [] base = "bin" -> size_bin(size)

DigitChars ==
    <<"0", "1", "2", "3", "4", "5", "6", "7", "8", "9",
      "a", "b", "c", "d", "e", "f">>

\* the bytes divided by the radix, with the remainder: long division from
\* the most significant byte on
RECURSIVE DivBytes(_, _, _, _)
DivBytes(bytes, radix, carry, q) ==
    IF bytes = <<>>
    THEN [q |-> q, r |-> carry]
    ELSE DivBytes(Tail(bytes), radix, (carry * 256 + Head(bytes)) % radix,
                  Append(q, (carry * 256 + Head(bytes)) \div radix))

IsZero(bytes) == \A i \in 1..Len(bytes) : bytes[i] = 0

RECURSIVE Power(_, _)
Power(radix, k) == IF k = 0 THEN 1 ELSE radix * Power(radix, k - 1)

\* digits produced by one division of the whole value
DigitsPerStep(radix) ==
    CASE radix = 10 -> 6 [] radix = 16 -> 4 [] radix = 8 -> 7 [] radix = 2 -> 16

\* the k digits of a number below radix^k
DigitsOfRemainder(n, radix, k) ==
    [i \in 1..k |-> DigitChars[((n \div Power(radix, k - i)) % radix) + 1]]

\* the digits of an unsigned value, by division until nothing is left, the
\* last digits first
RECURSIVE DigitsFrom(_, _, _)
DigitsFrom(bytes, radix, digits) ==
    IF IsZero(bytes)
    THEN digits
    ELSE LET k == DigitsPerStep(radix)
             d == DivBytes(bytes, Power(radix, k), 0, <<>>)
         IN  DigitsFrom(d.q, radix, DigitsOfRemainder(d.r, radix, k) \o digits)

\* without the zeros in front of the first digit that is not 0
StripZeros(digits) ==
    IF \A i \in 1..Len(digits) : digits[i] = "0"
    THEN <<>>
    ELSE LET first == CHOOSE i \in 1..Len(digits) :
                         /\ digits[i] # "0"
                         /\ \A j \in 1..(i - 1) : digits[j] = "0"
         IN  SubSeq(digits, first, Len(digits))

DigitsOf(bytes, radix) == StripZeros(DigitsFrom(bytes, radix, <<>>))

\* bytes + 1 with wrap-around
RECURSIVE Increment(_)
Increment(bytes) ==
    IF bytes = <<>> THEN <<>>
    ELSE LET n == Len(bytes) IN
         IF bytes[n] < 255
         THEN [bytes EXCEPT ![n] = bytes[n] + 1]
         ELSE Append(Increment(SubSeq(bytes, 1, n - 1)), 0)

\* the magnitude of a negative value in two's complement
Negate(bytes) == Increment([i \in 1..Len(bytes) |-> 255 - bytes[i]])

IsNegative(type, bytes) == type.signed /\ bytes[1] >= 128

\* what core::fmt hands to write_str for {}, {:x}, {:o} and {:b}: the sign of
\* a negative number in decimal, and the digits; the other bases show the
\* two's complement of a negative number
FmtPieces(type, bytes, base) ==
    LET neg == base = "dec" /\ IsNegative(type, bytes)
        digits == DigitsOf(IF neg THEN Negate(bytes) ELSE bytes, Radix(base))
    IN  <<IF neg THEN <<"-">> ELSE <<>>,
          IF digits = <<>> THEN <<"0">> ELSE digits>>

\* heapless String::<N>::new()
String_new(N) == [buf |-> <<>>, N |-> N, ok |-> TRUE]

\* Write for heapless String: push_str fails when the capacity is too small
write_str(string, chars) ==
    IF ~string.ok \/ Len(string.buf) + Len(chars) > string.N
    THEN [string EXCEPT !.ok = FALSE]
    ELSE [string EXCEPT !.buf = string.buf \o chars]

\* write!(&mut buffer, "{..}", self)
write_fmt(type, bytes, base) ==
    LET pieces == FmtPieces(type, bytes, base)
        buffer == String_new(CapacityOf(base, type.size))
    IN  write_str(write_str(buffer, pieces[1]), pieces[2])

\* the values written: all of one byte, and of more bytes those with the
\* top byte and the other bytes of these
TopBytes == {0, 1, 127, 128, 255}

FillBytes == {0, 1, 255}

ValuesOf(type) ==
    IF type.size = 1
    THEN {<<v>> : v \in 0..255}
    ELSE {<<top>> \o [i \in 1..(type.size - 1) |-> fill] :
            top \in TopBytes, fill \in FillBytes}

\* write_to_serial_as_dec / _hex / _oct / _bin: format, unwrap, write
Fmt_write(base) ==
    /\ hist = <<>>
    /\ LET buffer == write_fmt(arg.type, arg.bytes, base) IN
         hist' = <<[op |-> base, val |-> buffer.buf,
                    ret |-> IF buffer.ok THEN "Ok" ELSE "panic",
                    before |-> mem, after |-> mem]>>
    /\ UNCHANGED <<I, counter, stack, shared, updates, RES, calls, item, out>>
    /\ UNCHANGED <<prog, mem, arg, dyn, ser, wait, reg, lost>>

InitFmt ==
    /\ I = FALSE
    /\ counter = 0
    /\ stack = <<Frame("main")>>
    /\ shared = 0
    /\ updates = 0
    /\ RES = ResInit
    /\ calls = 0
    /\ item = NoItem
    /\ out = NoItem
    /\ prog = NoProgram
    /\ arg \in {[type |-> ty, bytes |-> v] : ty \in NumTypes,
                  v \in UNION {ValuesOf(u) : u \in NumTypes}}
    /\ arg.bytes \in ValuesOf(arg.type)
    /\ mem = <<0>>
    /\ hist = <<>>
    /\ wait = NoWait
    /\ reg = ResetRegisters
    /\ lost = NoLost
    /\ dyn = NoDyn
    /\ ser = NoSerial

NextFmt == \E base \in Bases : Fmt_write(base)

SpecFmt == InitFmt /\ [][NextFmt]_vars

(* Properties of the renderings *)

DigitValue(c) == CHOOSE d \in 0..15 : DigitChars[d + 1] = c

\* the number a rendering without sign denotes
RECURSIVE Parse(_, _)
Parse(chars, radix) ==
    IF chars = <<>> THEN 0
    ELSE Parse(SubSeq(chars, 1, Len(chars) - 1), radix) * radix
            + DigitValue(chars[Len(chars)])

\* the value of one or two bytes as an unsigned number
Unsigned(bytes) == IF Len(bytes) = 1 THEN bytes[1] ELSE 256 * bytes[1] + bytes[2]

\* C36: for every integer type that is SerialWritable and every value of it,
\* the decimal, hexadecimal, octal and binary rendering fits the buffer of
\* 4, 2, 3 and 8 characters per byte of the type, the sign included: the
\* write succeeds and unwrap does not panic. The rendering of a value of one
\* or two bytes denotes that value.
C36_RenderingFits ==
    hist # <<>> =>
        LET call == hist[1]
            size == arg.type.size
            neg == call.op = "dec" /\ IsNegative(arg.type, arg.bytes)
            digits == IF neg THEN Tail(call.val) ELSE call.val
        IN  /\ call.ret = "Ok"
            /\ Len(call.val) >= 1
            /\ Len(call.val) <= (CASE call.op = "dec" -> 4 * size
                                   [] call.op = "hex" -> 2 * size
                                   [] call.op = "oct" -> 3 * size
                                   [] call.op = "bin" -> 8 * size)
            /\ neg => call.val[1] = "-"
            /\ \A i \in 1..Len(digits) :
                  \E d \in 0..(Radix(call.op) - 1) : digits[i] = DigitChars[d + 1]
            /\ size <= 2 =>
                  Parse(digits, Radix(call.op)) =
                      IF neg THEN Pow2(8 * size) - Unsigned(arg.bytes)
                      ELSE Unsigned(arg.bytes)

\* i8::MIN in decimal fills its buffer of four characters
C36_Witness ==
    /\ arg.type.name = "i8"
    /\ arg.bytes = <<128>>
    /\ hist # <<>>
    /\ hist[1].op = "dec"
    /\ hist[1].val = <<"-", "1", "2", "8">>
    /\ hist[1].ret = "Ok"

----------------------------------------------------------------------------
(* Critical sections with the feature unsafe-no-critical-section-count:    *)
(* src/avr/interrupt/mod.rs without the lines under cfg(not(feature))      *)

\* an entry that leaves the I flag as it is
Nc_new_no_cli ==
    /\ Top.pc = "run"
    /\ Top.depth < MaxDepth
    /\ stack' = SetTop([Top EXCEPT !.depth = @ + 1,
                                   !.i0 = IF Top.depth = 0 THEN I ELSE @,
                                   !.sei = IF Top.depth = 0 THEN FALSE ELSE @])
    /\ UNCHANGED <<I, counter, shared, updates>>
    /\ csUnchanged

\* CriticalSection::new, lines 43-46: CLI, then the token exists; the frame
\* forgets the SEI of earlier exits when it enters its outermost section
Nc_new ==
    /\ Top.pc = "run"
    /\ Top.depth < MaxDepth
    /\ I' = FALSE
    /\ stack' = SetTop([Top EXCEPT !.depth = @ + 1,
                                   !.i0 = IF Top.depth = 0 THEN I ELSE @,
                                   !.sei = IF Top.depth = 0 THEN FALSE ELSE @])
    /\ UNCHANGED <<counter, shared, updates>>
    /\ csUnchanged

\* Drop, lines 68-71: SEI
Nc_drop ==
    /\ Top.pc = "run"
    /\ Top.depth > 0
    /\ I' = TRUE
    /\ stack' = SetTop([Top EXCEPT !.depth = @ - 1, !.sei = TRUE])
    /\ UNCHANGED <<counter, shared, updates>>
    /\ csUnchanged

NextNoCount ==
    \/ Nc_new
    \/ Nc_drop
    \/ Mutex_get
    \/ Mutex_set
    \/ \E h \in RmwHandlers : Dispatch(h)
    \/ Reti

(* Properties of the critical sections without the counter *)

\* in a critical section that no exit has been made from since the context
\* entered its outermost one
Unbroken(f) == f.depth >= 1 /\ ~f.sei

\* C35: without the nesting counter every exit of a critical section sets
\* the interrupt flag, whatever the nesting; a closure of without_interrupts
\* that nests no other call runs with the flag clear from its entry to its
\* exit and is not preempted, and the flag is set when it has returned
C35_NoCounter ==
    /\ [](/\ Unbroken(Top) => ~I
          /\ \A k \in 1..(Len(stack) - 1) : ~Unbroken(stack[k])
          /\ counter = 0)
    /\ [][(OwnStep /\ Top'.depth < Top.depth) => I']_vars
    /\ [][(OwnStep /\ Top'.depth > Top.depth) => ~I']_vars

\* the exit of an inner critical section has set the flag inside the outer
\* one, and a handler has preempted the outer closure
C35_Witness ==
    /\ Len(stack) = 2
    /\ stack[1].depth = 1 /\ stack[1].sei
    /\ Top.depth = 1 /\ ~Top.sei
    /\ ~I

----------------------------------------------------------------------------
(* The serial ring buffer: examples/02_serial_interface.rs                *)
(* ser.stage has the position of every USART_RXC invocation on the stack   *)
(* in its closure, ser.dump the bytes main has sent in this round of its   *)
(* loop and ser.seen the buffer its first get() returned.                  *)

\* bytes received in one run
MaxBytes == 33

\* Serial::read_raw(): the byte in UDR at the n-th reception
UDR(n) == 65 + (n % 26)

serUnchanged ==
    UNCHANGED <<I, counter, stack, shared, updates, RES, calls, item, out,
                prog, mem, arg, hist, wait, reg, lost, dyn>>

RxTop == Top.ctx = "USART_RXC"

RxStage == ser.stage[Len(ser.stage)]

SetStage(s) == [ser.stage EXCEPT ![Len(ser.stage)] = s]

\* the hardware enters __vector_13 at a received byte when the I flag is set
Rx_dispatch ==
    /\ I = TRUE
    /\ Len(stack) <= MaxNest
    /\ ser.received + Len(ser.stage) < MaxBytes
    /\ I' = FALSE
    /\ stack' = Append(stack, Frame("USART_RXC"))
    /\ ser' = [ser EXCEPT !.stage = Append(ser.stage, "enter")]
    /\ UNCHANGED <<counter, shared, updates, RES, calls, item, out>>
    /\ UNCHANGED <<prog, mem, arg, hist, wait, reg, lost, dyn>>

\* line 17: the handler calls without_interrupts
Rx_cs_new ==
    /\ RxTop
    /\ Top.depth = 0
    /\ RxStage = "enter"
    /\ CS_new

\* lines 22-25: buffer.update(|mut b| { b[write_ptr.get()] = read_raw(); b })
Rx_store ==
    /\ RxTop
    /\ CanLock(Top)
    /\ RxStage = "enter"
    /\ ser' = [ser EXCEPT
                 !.buffer = [ser.buffer EXCEPT
                                ![ser.write_ptr + 1] = UDR(ser.received)],
                 !.received = ser.received + 1,
                 !.stage = SetStage("stored")]
    /\ serUnchanged

\* line 28: write_ptr.update(..)
Rx_advance ==
    /\ RxTop
    /\ CanLock(Top)
    /\ RxStage = "stored"
    /\ ser' = [ser EXCEPT !.write_ptr = SharedUpdate(ser.write_ptr),
                          !.advanced = ser.advanced + 1,
                          !.stage = SetStage("done")]
    /\ serUnchanged

\* line 29: the closure returns and the critical section is dropped
Rx_cs_drop ==
    /\ RxTop
    /\ RxStage = "done"
    /\ CS_drop_get

\* line 30: the trampoline returns with RETI
Rx_reti ==
    /\ RxTop
    /\ Top.pc = "run"
    /\ Top.depth = 0
    /\ RxStage = "done"
    /\ I' = TRUE
    /\ stack' = SubSeq(stack, 1, Len(stack) - 1)
    /\ ser' = [ser EXCEPT !.stage = SubSeq(ser.stage, 1, Len(ser.stage) - 1)]
    /\ UNCHANGED <<counter, shared, updates, RES, calls, item, out>>
    /\ UNCHANGED <<prog, mem, arg, hist, wait, reg, lost, dyn>>

MainTop == Top.ctx = "main"

\* lines 49-63 and 78: println!, counter += 1, delay_ms at the top of the loop
Main_loop ==
    /\ MainTop
    /\ Top.pc = "run"
    /\ Top.depth = 0
    /\ Len(ser.dump) = USART_BUFFER_SIZE
    /\ ser' = [ser EXCEPT !.dump = <<>>, !.seen = <<>>]
    /\ serUnchanged

\* line 66: main calls without_interrupts
Main_cs_new ==
    /\ MainTop
    /\ Top.depth = 0
    /\ ser.dump = <<>>
    /\ CS_new

\* line 72: Serial::write_raw(buffer.get()[i]), get() copies the array
Main_write_raw ==
    /\ MainTop
    /\ CanLock(Top)
    /\ Len(ser.dump) < USART_BUFFER_SIZE
    /\ ser' = [ser EXCEPT
                 !.dump = Append(ser.dump, ser.buffer[Len(ser.dump) + 1]),
                 !.seen = IF ser.dump = <<>> THEN ser.buffer ELSE ser.seen]
    /\ serUnchanged

\* line 75: the closure returns and the critical section is dropped
Main_cs_drop ==
    /\ MainTop
    /\ Len(ser.dump) = USART_BUFFER_SIZE
    /\ CS_drop_get

NextSerial ==
    \/ Rx_dispatch
    \/ Rx_cs_new
    \/ Rx_store
    \/ Rx_advance
    \/ Rx_cs_drop
    \/ Rx_reti
    \/ Main_loop
    \/ Main_cs_new
    \/ Main_write_raw
    \/ Main_cs_drop
    \/ CS_new_get
    \/ CS_new_set
    \/ CS_drop_sei
    \/ CS_drop_set

(* Properties of the serial ring buffer *)

\* the reception that wrote the slot last, or none
LastInto(slot) ==
    {n \in 0..(ser.received - 1) :
        /\ n % USART_BUFFER_SIZE = slot
        /\ n + USART_BUFFER_SIZE > ser.received - 1}

\* C34: USART_WRITE_PTR is in 0..31, advances by one with every received
\* byte and wraps from 31 to 0, every received byte is stored at the index
\* the pointer had before its increment, and what main sends in one round is
\* the buffer as it was at the first byte: the handler writes no element
\* while main is inside its critical section
C34_RingBuffer ==
    /\ ser.write_ptr \in 0..(USART_BUFFER_SIZE - 1)
    /\ ser.write_ptr = ser.advanced % USART_BUFFER_SIZE
    /\ ser.received - ser.advanced \in {0, 1}
    /\ \A slot \in 0..(USART_BUFFER_SIZE - 1) :
          ser.buffer[slot + 1] =
              IF LastInto(slot) = {} THEN Blank
              ELSE UDR(CHOOSE n \in LastInto(slot) : TRUE)
    /\ ser.dump # <<>> =>
          /\ \A k \in 1..Len(ser.dump) : ser.dump[k] = ser.seen[k]
          /\ Len(ser.dump) < USART_BUFFER_SIZE => ser.buffer = ser.seen

\* the pointer has wrapped, main has sent the buffer with the 33rd byte
\* in its first element
C34_Witness ==
    /\ ser.received = 33
    /\ ser.write_ptr = 1
    /\ Len(ser.dump) = USART_BUFFER_SIZE
    /\ ser.dump[1] = UDR(32)
    /\ ser.dump[2] = UDR(1)
    /\ Len(stack) = 1

\* no program linked, no call made on a register, the ports as reset leaves
\* them
InitReg ==
    /\ prog = NoProgram
    /\ mem = <<0>>
    /\ arg = NoArg
    /\ hist = <<>>
    /\ wait = NoWait
    /\ reg = ResetRegisters
    /\ lost = NoLost
    /\ dyn = NoDyn
    /\ ser = NoSerial

Init ==
    /\ I = FALSE
    /\ counter = 0
    /\ stack = <<Frame("main")>>
    /\ shared = 0
    /\ updates = 0
    /\ RES = 0
    /\ calls = 0
    /\ item = NoItem
    /\ out = NoItem
    /\ InitReg

Next ==
    \/ CS_new
    \/ CS_new_get
    \/ CS_new_set
    \/ CS_drop_get
    \/ CS_drop_sei
    \/ CS_drop_set
    \/ Mutex_get
    \/ Mutex_set
    \/ \E h \in Handlers : Dispatch(h)
    \/ Reti

Spec == Init /\ [][Next]_vars

NextRes ==
    \/ MainCS
    \/ DispatchRes
    \/ Res_load
    \/ Res_store
    \/ Reti

SpecRes == Init /\ [][NextRes]_vars

InitMacro ==
    /\ I = FALSE
    /\ counter = 0
    /\ stack = <<Frame("main")>>
    /\ shared = 0
    /\ updates = 0
    /\ RES = 0
    /\ calls = 0
    /\ item \in Items
    /\ out = NoItem
    /\ InitReg

NextMacro ==
    \/ ExpandEntry
    \/ ExpandInterrupt

SpecMacro == InitMacro /\ [][NextMacro]_vars

NextLink == \E name \in HandlerNames : RegisterHandler(name)

SpecLink == Init /\ [][NextLink]_vars

SpecRmw == Init /\ [][NextRmw]_vars

SpecBuild == Init /\ [][NextBuild]_vars

SpecDisc == Init /\ [][NextDisc]_vars

SpecSerial == Init /\ [][NextSerial]_vars

SpecNoCount == Init /\ [][NextNoCount]_vars

SpecDyn == Init /\ [][NextDyn]_vars

====
